---- MODULE Spec2Model ----
(***************************************************************************)
(* Intent classification, routing and conversational-context resolution   *)
(* of the voice support assistant (backend/services/fast_intent_classifier *)
(* .py, backend/agents/supervisor_agent.py, backend/agents/ticket_agent.py *)
(* and the turn loop of backend/main.py).                                  *)
(*                                                                         *)
(* Text is modelled as TLA+ strings and the regular expressions of the     *)
(* source are transcribed one by one into a small pattern language that is *)
(* evaluated by a backtracking matcher with Python's preference order      *)
(* (ordered alternation, greedy repetition, leftmost match).               *)
(* Confidences are integers in hundredths (95 stands for 0.95).            *)
(***************************************************************************)
EXTENDS Integers, Sequences, FiniteSets, TLC

-----------------------------------------------------------------------------
(* Characters and strings (str.lower, str.strip, str.isdigit, str.zfill,   *)
(* the `in` substring test, str.startswith / str.endswith).                *)

Lowers == "abcdefghijklmnopqrstuvwxyz"
Uppers == "ABCDEFGHIJKLMNOPQRSTUVWXYZ"
LowerSet == {SubSeq(Lowers, i, i) : i \in 1..Len(Lowers)}
UpperSet == {SubSeq(Uppers, i, i) : i \in 1..Len(Uppers)}
DigitSet == {"0", "1", "2", "3", "4", "5", "6", "7", "8", "9"}
SpaceSet == {" ", "\t", "\n", "\r", "\f"}

CharAt(s, i) == SubSeq(s, i, i)

IsDigitChar(c) == c \in DigitSet
IsSpaceChar(c) == c \in SpaceSet
IsWordChar(c) == c \in LowerSet \/ c \in UpperSet \/ c \in DigitSet \/ c = "_"
IsIdChar(c) == c \in LowerSet \/ c \in UpperSet \/ c \in DigitSet \/ c = "-" \/ c = "_"

LowerChar(c) ==
    IF c \in UpperSet
    THEN LET k == CHOOSE i \in 1..Len(Uppers) : CharAt(Uppers, i) = c
         IN  CharAt(Lowers, k)
    ELSE c

UpperChar(c) ==
    IF c \in LowerSet
    THEN LET k == CHOOSE i \in 1..Len(Lowers) : CharAt(Lowers, i) = c
         IN  CharAt(Uppers, k)
    ELSE c

(* Character by character, halving the string. *)
RECURSIVE LowerStr(_)
LowerStr(s) ==
    IF Len(s) <= 1 THEN LowerChar(s)
    ELSE LowerStr(SubSeq(s, 1, Len(s) \div 2)) \o LowerStr(SubSeq(s, Len(s) \div 2 + 1, Len(s)))

RECURSIVE UpperStr(_)
UpperStr(s) ==
    IF Len(s) <= 1 THEN UpperChar(s)
    ELSE UpperStr(SubSeq(s, 1, Len(s) \div 2)) \o UpperStr(SubSeq(s, Len(s) \div 2 + 1, Len(s)))

RECURSIVE LStrip(_)
LStrip(s) == IF s # "" /\ IsSpaceChar(Head(s)) THEN LStrip(Tail(s)) ELSE s

RECURSIVE RStrip(_)
RStrip(s) ==
    IF s # "" /\ IsSpaceChar(CharAt(s, Len(s)))
    THEN RStrip(SubSeq(s, 1, Len(s) - 1))
    ELSE s

Strip(s) == RStrip(LStrip(s))

IsDigitStr(s) == s # "" /\ \A i \in 1..Len(s) : IsDigitChar(CharAt(s, i))

RECURSIVE ZFill(_, _)
ZFill(s, width) == IF Len(s) >= width THEN s ELSE ZFill("0" \o s, width)

StartsWith(s, p) == Len(p) <= Len(s) /\ SubSeq(s, 1, Len(p)) = p
EndsWith(s, p) == Len(p) <= Len(s) /\ SubSeq(s, Len(s) - Len(p) + 1, Len(s)) = p
Contains(s, sub) == \E i \in 1..(Len(s) - Len(sub) + 1) : SubSeq(s, i, i + Len(sub) - 1) = sub

-----------------------------------------------------------------------------
(* Pattern language: the constructs of Python's `re` that the source uses. *)

Lit(x) == [t |-> "lit", s |-> x]
Cls(c) == [t |-> "cls", c |-> c]
WordB == [t |-> "b"]
Bol == [t |-> "bol"]
Eol == [t |-> "eol"]
Cat(rs) == [t |-> "cat", rs |-> rs]
Alt(rs) == [t |-> "alt", rs |-> rs]
Opt(r) == [t |-> "opt", r |-> r]
Star(r) == [t |-> "star", r |-> r]
Plus(r) == Cat(<<r, Star(r)>>)
Words(ws) == Alt([i \in 1..Len(ws) |-> Lit(ws[i])])
S0 == Star(Cls("s"))
S1 == Plus(Cls("s"))
D1 == Plus(Cls("d"))
Id1 == Plus(Cls("id"))
Empty == Cat(<<>>)

InClass(c, ch) ==
    CASE c = "s" -> IsSpaceChar(ch)
      [] c = "d" -> IsDigitChar(ch)
      [] c = "w" -> IsWordChar(ch)
      [] c = "id" -> IsIdChar(ch)
      [] c = "any" -> ch # "\n"

WordAt(s, i) == i >= 1 /\ i <= Len(s) /\ IsWordChar(CharAt(s, i))
AtWordBoundary(s, i) == WordAt(s, i - 1) # WordAt(s, i)

(* M(re, s, i): the positions at which a match of re starting at position  *)
(* i of s can end (as the index of the next character), in the order in    *)
(* which a backtracking matcher tries them.                                *)
RECURSIVE M(_, _, _)
RECURSIVE MCat(_, _, _, _)
RECURSIVE MCatFrom(_, _, _, _)
RECURSIVE MAlt(_, _, _, _)
RECURSIVE MStar(_, _, _)
RECURSIVE MStarFrom(_, _, _, _)

M(re, s, i) ==
    CASE re.t = "lit" ->
            IF i + Len(re.s) - 1 <= Len(s) /\ SubSeq(s, i, i + Len(re.s) - 1) = re.s
            THEN <<i + Len(re.s)>> ELSE <<>>
      [] re.t = "cls" ->
            IF i <= Len(s) /\ InClass(re.c, CharAt(s, i)) THEN <<i + 1>> ELSE <<>>
      [] re.t = "b" -> IF AtWordBoundary(s, i) THEN <<i>> ELSE <<>>
      [] re.t = "bol" -> IF i = 1 THEN <<i>> ELSE <<>>
      [] re.t = "eol" -> IF i = Len(s) + 1 THEN <<i>> ELSE <<>>
      [] re.t = "cat" -> MCat(re.rs, 1, s, i)
      [] re.t = "alt" -> MAlt(re.rs, 1, s, i)
      [] re.t = "opt" -> M(re.r, s, i) \o <<i>>
      [] re.t = "star" -> MStar(re.r, s, i)

MCat(rs, k, s, i) ==
    IF k > Len(rs) THEN <<i>> ELSE MCatFrom(rs, k + 1, s, M(rs[k], s, i))

MCatFrom(rs, k, s, ends) ==
    IF ends = <<>> THEN <<>>
    ELSE MCat(rs, k, s, Head(ends)) \o MCatFrom(rs, k, s, Tail(ends))

MAlt(rs, k, s, i) ==
    IF k > Len(rs) THEN <<>> ELSE M(rs[k], s, i) \o MAlt(rs, k + 1, s, i)

MStar(r, s, i) == MStarFrom(r, s, i, M(r, s, i)) \o <<i>>

MStarFrom(r, s, i, ends) ==
    IF ends = <<>> THEN <<>>
    ELSE (IF Head(ends) > i THEN MStar(r, s, Head(ends)) ELSE <<>>)
         \o MStarFrom(r, s, i, Tail(ends))

(* re.search(pattern, s) is not None *)
Search(re, s) == \E i \in 1..(Len(s) + 1) : M(re, s, i) # <<>>

(* A pattern with one capturing group is written [pre, grp, post];         *)
(* Capture gives match.group(1) of re.search, or NoMatch.                  *)
NoMatch == "<no match>"
Grp(pre, grp, post) == [pre |-> pre, grp |-> grp, post |-> post]
Whole(p) == Cat(<<p.pre, p.grp, p.post>>)

RECURSIVE GrpEnds(_, _, _, _)
GrpEnds(p, s, a, bs) ==
    IF bs = <<>> THEN <<>>
    ELSE (IF M(p.post, s, Head(bs)) # <<>> THEN <<<<a, Head(bs) - 1>>>> ELSE <<>>)
         \o GrpEnds(p, s, a, Tail(bs))

RECURSIVE GrpStarts(_, _, _)
GrpStarts(p, s, as) ==
    IF as = <<>> THEN <<>>
    ELSE GrpEnds(p, s, Head(as), M(p.grp, s, Head(as))) \o GrpStarts(p, s, Tail(as))

(* The span (first, last) of group 1 in the leftmost match, <<>> if none. *)
MatchStarts(re, s) == {i \in 1..(Len(s) + 1) : M(re, s, i) # <<>>}
Leftmost(starts) == CHOOSE i \in starts : \A j \in starts : i <= j

SpanFrom(p, s, starts) ==
    IF starts = {} THEN <<>> ELSE Head(GrpStarts(p, s, M(p.pre, s, Leftmost(starts))))

GroupSpan(p, s) == SpanFrom(p, s, MatchStarts(Whole(p), s))

SpanText(s, g) == IF g = <<>> THEN NoMatch ELSE SubSeq(s, g[1], g[2])

Capture(p, s) == SpanText(s, GroupSpan(p, s))

(* The same under re.IGNORECASE (patterns are written in lower case):      *)
(* the group is cut from the text as written.                              *)
CaptureIgnoreCase(p, s) == SpanText(s, GroupSpan(p, LowerStr(s)))

-----------------------------------------------------------------------------
(* Pattern library of FastIntentClassifier.__init__: each entry is         *)
(* (pattern, pattern_type) in the order of the source list.                *)

P(re, ty) == [re |-> re, ty |-> ty]

ticket_patterns == <<
    P(Cat(<<WordB, Words(<<"ticket", "id">>), S0, Opt(Cat(<<Lit("id"), S0>>)),
            Opt(Cat(<<Lit("#"), S0>>)), Id1>>), "ticket_id"),
    P(Cat(<<WordB, Alt(<<Cat(<<Lit("it-"), D1>>), Cat(<<Lit("#"), D1>>),
                         Cat(<<Cls("d"), Cls("d"), Cls("d"), Star(Cls("d"))>>)>>), WordB>>),
      "ticket_id"),
    P(Cat(<<WordB, Words(<<"status", "state">>), S1, Opt(Words(<<"of", "for">>)), S0,
            Opt(Cat(<<Lit("my"), S1>>)), Words(<<"ticket", "id">>)>>), "status"),
    P(Cat(<<WordB, Words(<<"what", "how">>), S1, Opt(Cat(<<Lit("is"), S1>>)),
            Opt(Cat(<<Lit("the"), S1>>)), Lit("status")>>), "status"),
    P(Cat(<<WordB, Words(<<"description", "details", "info", "information">>), S1,
            Words(<<"of", "for", "about">>)>>), "description"),
    P(Cat(<<WordB, Words(<<"resolution", "solution", "fix">>), S1,
            Words(<<"of", "for", "to">>)>>), "resolution"),
    P(Cat(<<WordB, Words(<<"show", "get", "find", "lookup">>), S1,
            Opt(Cat(<<Lit("me"), S1>>)), Words(<<"ticket", "id">>)>>), "lookup"),
    P(Cat(<<WordB, Alt(<<Lit("who"), Cat(<<Lit("which"), S1, Lit("team")>>)>>), S1,
            Opt(Cat(<<Lit("was"), S1>>)), Opt(Cat(<<Lit("it"), S1>>)),
            Lit("assigned"), S1, Lit("to")>>), "team_assignment"),
    P(Cat(<<WordB, Alt(<<Cat(<<Lit("assigned"), S1, Lit("to")>>),
                         Cat(<<Lit("assigned"), S1, Lit("team")>>)>>)>>), "team_assignment"),
    P(Cat(<<WordB, Alt(<<Cat(<<Lit("resolution"), S1, Lit("time")>>),
                         Cat(<<Lit("how"), S1, Lit("long")>>)>>)>>), "resolution_time"),
    P(Cat(<<WordB, Opt(Cat(<<Lit("my"), S1>>)),
            Alt(<<Cat(<<Lit("ticket"), Opt(Lit("s"))>>), Cat(<<Lit("issue"), Opt(Lit("s"))>>),
                  Cat(<<Lit("problem"), Opt(Lit("s"))>>)>>)>>), "general_ticket"),
    P(Cat(<<WordB, Words(<<"open", "closed", "pending", "resolved">>), S1,
            Lit("ticket"), Opt(Lit("s"))>>), "ticket_search"),
    P(Cat(<<WordB, Words(<<"show", "list", "display", "get">>), S1,
            Opt(Cat(<<Lit("me"), S1>>)), Opt(Cat(<<Lit("all"), S1>>)),
            Opt(Cat(<<Lit("my"), S1>>)),
            Opt(Words(<<"high", "low", "medium", "priority", "urgent">>)), S0,
            Opt(Cat(<<Lit("priority"), S1>>)), Lit("ticket"), Opt(Lit("s"))>>), "ticket_search"),
    P(Cat(<<WordB, Words(<<"all", "high", "low", "medium">>), S1, Lit("priority"), S1,
            Lit("ticket"), Opt(Lit("s"))>>), "ticket_search")
>>

knowledge_patterns == <<
    P(Cat(<<WordB, Words(<<"what", "how", "why", "when", "where">>), S1,
            Words(<<"is", "are", "do", "does", "can", "should">>)>>), "question"),
    P(Cat(<<WordB, Lit("how"), S1,
            Alt(<<Cat(<<Lit("do"), S1, Lit("i")>>), Lit("to"),
                  Cat(<<Lit("can"), S1, Lit("i")>>)>>)>>), "how_to"),
    P(Cat(<<WordB, Lit("what"), S1, Words(<<"is", "are">>), S1,
            Opt(Words(<<"a", "an", "the">>)), S0, Plus(Cls("w"))>>), "definition"),
    P(Cat(<<WordB, Words(<<"help", "guide", "documentation", "docs", "manual">>)>>), "help"),
    P(Cat(<<WordB, Alt(<<Lit("explain"), Cat(<<Lit("tell"), S1, Lit("me")>>),
                         Cat(<<Lit("show"), S1, Lit("me")>>)>>), S1,
            Words(<<"about", "how">>)>>), "explanation"),
    P(Cat(<<WordB, Words(<<"probe", "superops", "network", "monitor", "scan">>)>>),
      "product_feature"),
    P(Cat(<<WordB, Words(<<"install", "setup", "configure", "add", "create">>)>>), "setup_help")
>>

greeting_patterns == <<
    P(Cat(<<WordB, Alt(<<Lit("hello"), Lit("hi"), Lit("hey"),
                         Cat(<<Lit("good"), S1,
                               Words(<<"morning", "afternoon", "evening">>)>>)>>)>>), "greeting"),
    P(Cat(<<WordB, Alt(<<Cat(<<Lit("how"), S1, Lit("are"), S1, Lit("you")>>),
                         Cat(<<Lit("how"), S1, Lit("do"), S1, Lit("you"), S1, Lit("do")>>)>>)>>),
      "greeting"),
    P(Cat(<<WordB, Alt(<<Cat(<<Lit("thank"), Opt(Lit("s"))>>),
                         Cat(<<Lit("thank"), S1, Lit("you")>>)>>)>>), "thanks"),
    P(Cat(<<WordB, Lit("thank"), S1, Lit("you"), S1, Opt(Cat(<<Lit("so"), S1>>)),
            Lit("much")>>), "thanks"),
    P(Cat(<<WordB, Alt(<<Cat(<<Lit("perfect"), Star(Cls("any")), Lit("thank")>>),
                         Cat(<<Lit("great"), Star(Cls("any")), Lit("thank")>>)>>)>>), "thanks"),
    P(Cat(<<WordB, Alt(<<Lit("goodbye"), Cat(<<Lit("see"), S1, Lit("you")>>),
                         Cat(<<Lit("have"), S1, Lit("a"), S1, Lit("good")>>)>>)>>), "thanks"),
    P(Cat(<<WordB, Lit("appreciate"), S1, Lit("it")>>), "thanks")
>>

escalation_patterns == <<
    P(Cat(<<WordB, Words(<<"escalate", "human", "agent", "person", "representative">>)>>),
      "escalation"),
    P(Cat(<<WordB, Alt(<<Cat(<<Lit("speak"), S1, Lit("to")>>), Cat(<<Lit("talk"), S1, Lit("to")>>),
                         Cat(<<Lit("connect"), S1, Lit("me")>>)>>)>>), "escalation"),
    P(Cat(<<WordB, Alt(<<Lit("transfer"), Lit("forward"),
                         Cat(<<Lit("hand"), S1, Lit("over")>>)>>)>>), "escalation")
>>

Yes == Words(<<"yes", "yeah", "yep", "sure", "okay", "ok">>)

(* A variant of followup_patterns: a 'more details' pattern that is not   *)
(* anchored to the whole string.                                           *)
followup_patterns_Unanchored == <<
    P(Cat(<<Opt(Cat(<<Lit("give"), S1, Lit("me"), S1>>)), Opt(Cat(<<Lit("more"), S1>>)),
            Words(<<"details", "information">>)>>), "more_details")
>>

followup_patterns == <<
    P(Cat(<<WordB, Yes, WordB, Star(Cls("any")), Words(<<"show", "list", "display">>)>>),
      "followup_show"),
    P(Cat(<<WordB, Opt(Cat(<<Lit("please"), S1>>)), Words(<<"show", "list", "display">>), S1,
            Words(<<"them", "those", "it">>)>>), "followup_show"),
    P(Cat(<<WordB, Yes, WordB, Star(Cls("any")), Lit("please")>>), "followup_confirm"),
    P(Cat(<<WordB, Alt(<<Cat(<<Lit("go"), S1, Lit("ahead")>>), Lit("continue"),
                         Lit("proceed")>>)>>), "followup_confirm"),
    P(Cat(<<WordB, Alt(<<Lit("who"), Cat(<<Lit("which"), S1, Lit("team")>>)>>), S1,
            Opt(Cat(<<Lit("was"), S1>>)), Opt(Cat(<<Lit("it"), S1>>)), Lit("assigned")>>),
      "contextual_team"),
    P(Cat(<<WordB, Lit("what"), S1, Opt(Cat(<<Lit("was"), S1>>)), Opt(Cat(<<Lit("the"), S1>>)),
            Alt(<<Cat(<<Lit("resolution"), S1, Lit("time")>>), Lit("time")>>)>>),
      "contextual_time"),
    P(Cat(<<WordB, Lit("that"), S1, Opt(Cat(<<Lit("particular"), S1>>)), Lit("ticket")>>),
      "contextual_ticket")
>>

(* Python's None for an optional string, and for an optional Intent. *)
None == "None"

(* FastIntentClassifier._check_patterns: the type of the first pattern of  *)
(* the list that re.search finds in the query, or None.                    *)
RECURSIVE CheckFrom(_, _, _)
CheckFrom(query, patterns, k) ==
    IF k > Len(patterns) THEN None
    ELSE IF Search(patterns[k].re, query) THEN patterns[k].ty
    ELSE CheckFrom(query, patterns, k + 1)

_check_patterns(query, patterns) == CheckFrom(query, patterns, 1)

(* FastIntentClassifier._normalize_ticket_id: raw_id is the stripped,      *)
(* upper-cased input.                                                      *)
FirstDigitRun(s) == Capture(Grp(Empty, D1, Empty), s)

PadFirstRun(raw_id, run) == IF run # NoMatch THEN "IT-" \o ZFill(run, 3) ELSE raw_id

(* A variant of NormalizeUpper that leaves out the dash for a bare number. *)
NormalizeUpper_NoDash(raw_id) ==
    IF StartsWith(raw_id, "IT-") THEN raw_id
    ELSE IF StartsWith(raw_id, "IT") /\ Len(raw_id) > 2
            /\ IsDigitStr(SubSeq(raw_id, 3, Len(raw_id)))
         THEN "IT-" \o ZFill(SubSeq(raw_id, 3, Len(raw_id)), 3)
    ELSE IF IsDigitStr(raw_id) THEN "IT" \o ZFill(raw_id, 3)
    ELSE PadFirstRun(raw_id, FirstDigitRun(raw_id))

NormalizeUpper(raw_id) ==
    IF StartsWith(raw_id, "IT-") THEN raw_id
    ELSE IF StartsWith(raw_id, "IT") /\ Len(raw_id) > 2
            /\ IsDigitStr(SubSeq(raw_id, 3, Len(raw_id)))
         THEN "IT-" \o ZFill(SubSeq(raw_id, 3, Len(raw_id)), 3)
    ELSE IF IsDigitStr(raw_id) THEN "IT-" \o ZFill(raw_id, 3)
    ELSE PadFirstRun(raw_id, FirstDigitRun(raw_id))

_normalize_ticket_id(raw) == NormalizeUpper(UpperStr(Strip(raw)))

(* FastIntentClassifier._check_ticket_patterns: the entities (ticket_id)   *)
(* and the type of the first matching ticket pattern.                      *)
it_patterns == <<
    Grp(Cat(<<WordB, Lit("it"), S1>>), D1, WordB),
    Grp(Cat(<<WordB, Lit("it-")>>), D1, WordB)
>>

ticket_id_patterns == <<
    Grp(Cat(<<WordB, Words(<<"ticket", "id">>), S0, Opt(Cat(<<Lit("id"), S0>>)),
              Opt(Cat(<<Lit("#"), S0>>))>>), Id1, Empty),
    Grp(Lit("#"), D1, Empty),
    Grp(WordB, Cat(<<Cls("d"), Cls("d"), Cls("d"), Star(Cls("d"))>>), WordB),
    Grp(Cat(<<Words(<<"of", "for">>), S1>>), Id1, Alt(<<Cls("s"), Eol>>))
>>

skip_words == {"ticket", "description", "resolution", "status", "for", "of", "my",
               "similar", "current", "currently", "open", "closed"}

NoEntities == <<>>
Entity(k, v) == (k :> v)
HasKey(entities, k) == k \in DOMAIN entities

(* A variant of PadNumber that does not pad the number. *)
PadNumber_NoPadding(number, otherwise) ==
    IF number # NoMatch THEN "IT-" \o number ELSE otherwise

(* entities['ticket_id'] = f"IT-{number.zfill(3)}" on a match, else go on *)
PadNumber(number, otherwise) ==
    IF number # NoMatch THEN "IT-" \o ZFill(number, 3) ELSE otherwise

RECURSIVE ItIdFrom(_, _)
ItIdFrom(query, k) ==
    IF k > Len(it_patterns) THEN None
    ELSE PadNumber(Capture(it_patterns[k], query), ItIdFrom(query, k + 1))

(* a captured raw_id is taken unless it is a skip word or a single         *)
(* character                                                               *)
TakeRawId(raw_id, otherwise) ==
    IF raw_id # NoMatch /\ LowerStr(raw_id) \notin skip_words /\ Len(raw_id) > 1
    THEN _normalize_ticket_id(raw_id)
    ELSE otherwise

RECURSIVE OtherIdFrom(_, _)
OtherIdFrom(query, k) ==
    IF k > Len(ticket_id_patterns) THEN None
    ELSE TakeRawId(Capture(ticket_id_patterns[k], query), OtherIdFrom(query, k + 1))

OrElse(a, b) == IF a # None THEN a ELSE b

ExtractTicketId(query) == OrElse(ItIdFrom(query, 1), OtherIdFrom(query, 1))

TicketEntities(id) == IF id # None THEN Entity("ticket_id", id) ELSE NoEntities

_check_ticket_patterns(query) ==
    [matched_pattern |-> _check_patterns(query, ticket_patterns),
     entities |-> TicketEntities(ExtractTicketId(query))]

(* Intent (base_agent.py) and Optional[Intent]. *)
Intent(ty, conf, ents, why) ==
    [intent_type |-> ty, confidence |-> conf, entities |-> ents, reasoning |-> why]

NoIntent == Intent(None, 0, NoEntities, None)

AnyIn(query, kws) == \E kw \in kws : Contains(query, kw)

(* A variant of explicit_mixed_indicators that takes every query matching  *)
(* both a ticket and a knowledge pattern for a mixed one.                  *)
explicit_mixed_indicators_BothMatch(query_lower, ticket_match, knowledge_match) ==
    ticket_match # None /\ knowledge_match # None

explicit_mixed_indicators(query_lower, ticket_match, knowledge_match) ==
    \/ Contains(query_lower, "can you also")
         /\ AnyIn(query_lower, {"what is", "how to", "explain"})
    \/ Contains(query_lower, "and also") /\ ticket_match # None /\ knowledge_match # None
    \/ Contains(query_lower, "also tell me") /\ (ticket_match # None \/ knowledge_match # None)
    \/ Contains(query_lower, "also explain") /\ (ticket_match # None \/ knowledge_match # None)
    \/ Contains(query_lower, "ticket") /\ Contains(query_lower, "also")
         /\ AnyIn(query_lower, {"explain", "tell me about", "what is a", "how does"})

(* A variant of ClassifyContent that gives every ticket query 0.85. *)
ClassifyContent_FlatConfidence(query_lower, tk, knowledge_match) ==
    IF explicit_mixed_indicators(query_lower, tk.matched_pattern, knowledge_match)
    THEN Intent("mixed_query", 90, tk.entities,
                "Detected explicit mixed query with dual request indicators")
    ELSE IF tk.matched_pattern # None
    THEN Intent("ticket_query", 85, tk.entities,
                "Detected ticket query pattern: " \o tk.matched_pattern)
    ELSE IF knowledge_match # None
    THEN Intent("knowledge_query", 85, NoEntities,
                "Detected knowledge query pattern: " \o knowledge_match)
    ELSE NoIntent

(* classify_intent from the ticket / knowledge checks on: mixed, ticket,   *)
(* knowledge, then None. tk is the result of _check_ticket_patterns.       *)
ClassifyContent(query_lower, tk, knowledge_match) ==
    IF explicit_mixed_indicators(query_lower, tk.matched_pattern, knowledge_match)
    THEN Intent("mixed_query", 90, tk.entities,
                "Detected explicit mixed query with dual request indicators")
    ELSE IF tk.matched_pattern # None
    THEN Intent("ticket_query",
                IF HasKey(tk.entities, "ticket_id") THEN 95 ELSE 85,
                tk.entities,
                "Detected ticket query pattern: " \o tk.matched_pattern)
    ELSE IF knowledge_match # None
    THEN Intent("knowledge_query", 85, NoEntities,
                "Detected knowledge query pattern: " \o knowledge_match)
    ELSE NoIntent

(* A variant of ClassifyLower that checks the escalation patterns before   *)
(* the greeting patterns.                                                  *)
ClassifyLower_EscalationFirst(query_lower) ==
    IF query_lower = "" THEN NoIntent
    ELSE IF _check_patterns(query_lower, escalation_patterns) # None
    THEN Intent("escalation", 90, NoEntities, "Detected escalation request")
    ELSE IF _check_patterns(query_lower, greeting_patterns) # None
    THEN Intent("greeting", 95, NoEntities, "Detected greeting pattern")
    ELSE IF _check_patterns(query_lower, followup_patterns) # None
    THEN Intent("ticket_query", 85, Entity("followup", "True"), "Detected follow-up query")
    ELSE ClassifyContent(query_lower, _check_ticket_patterns(query_lower),
                         _check_patterns(query_lower, knowledge_patterns))

(* classify_intent on the lower-cased, stripped query: greeting, then      *)
(* escalation, then follow-up, then the content checks.                    *)
ClassifyLower(query_lower) ==
    IF query_lower = "" THEN NoIntent
    ELSE IF _check_patterns(query_lower, greeting_patterns) # None
    THEN Intent("greeting", 95, NoEntities, "Detected greeting pattern")
    ELSE IF _check_patterns(query_lower, escalation_patterns) # None
    THEN Intent("escalation", 90, NoEntities, "Detected escalation request")
    ELSE IF _check_patterns(query_lower, followup_patterns) # None
    THEN Intent("ticket_query", 85, Entity("followup", "True"), "Detected follow-up query")
    ELSE ClassifyContent(query_lower, _check_ticket_patterns(query_lower),
                         _check_patterns(query_lower, knowledge_patterns))

(* FastIntentClassifier.classify_intent *)
classify_intent(query) == ClassifyLower(Strip(LowerStr(query)))


-----------------------------------------------------------------------------
(* Inputs of the classifier checks: a query is up to MaxParts phrases      *)
(* joined by single spaces, or an empty / blank transcript.                *)

MaxParts == 2

Phrases == {
    "Hi", "high priority tickets",
    "a human",
    "go ahead", "that ticket", "who was it assigned to",
    "can you also", "and also", "also explain",
    "my ticket 14", "IT-001", "it 7", "status of", "details about",
    "what is a probe", "help",
    "give me more details", "banana"
}

RECURSIVE JoinParts(_)
JoinParts(ps) ==
    IF Len(ps) = 0 THEN ""
    ELSE IF Len(ps) = 1 THEN ps[1]
    ELSE ps[1] \o " " \o JoinParts(Tail(ps))

(* Requests that are a follow-up cue and nothing else. *)
BareFollowups == {"give me more details", "details", "Details", "I have another question"}

Queries ==
    {"", "  "} \cup BareFollowups \cup
    UNION {{JoinParts(ps) : ps \in [1..n -> Phrases]} : n \in 1..MaxParts}

(* The transcripts a dialogue is made of. *)
DialogQueries == {
    "Hi, how are you?",
    "I want to talk to a human",
    "What is the status of IT-001?",
    "What was the resolution time for that ticket?",
    "how do I add a probe",
    "I have a ticket, can you also explain what a probe is",
    "give me more details"
}

(* classify_intent_fast: the module-level wrapper the supervisor calls.    *)
(* classify_intent is a pure function of the query: its value on the       *)
(* transcripts of the dialogue is computed once.                           *)
Classified == {<<q, classify_intent(q)>> : q \in DialogQueries}

Lookup(table, key) == (CHOOSE entry \in table : entry[1] = key)[2]

classify_intent_fast(query) ==
    IF query \in DialogQueries THEN Lookup(Classified, query) ELSE classify_intent(query)

-----------------------------------------------------------------------------
(* The language model (external): a call either raises or returns a text.  *)
(* json.loads is the library decoder: JsonDocs lists the JSON documents    *)
(* the model can send and the Python value each decodes to; any other text *)
(* raises JSONDecodeError.                                                 *)

JObj(keys, ty, conf, ents, why) ==
    [kind |-> "object", keys |-> keys, intent_type |-> ty, confidence |-> conf,
     entities |-> ents, reasoning |-> why]
JOther(kind) ==
    [kind |-> kind, keys |-> {}, intent_type |-> None, confidence |-> 0,
     entities |-> NoEntities, reasoning |-> None]
JsonError == JOther("JSONDecodeError")

AllKeys == {"intent_type", "confidence", "entities", "reasoning"}

DocTicket == "{\"intent_type\": \"ticket_query\", \"confidence\": 0.9, \"entities\": {\"ticket_id\": \"12345\"}, \"reasoning\": \"ticket\"}"
DocKnowledge == "{\"intent_type\": \"knowledge_query\", \"confidence\": 0.8, \"entities\": {}, \"reasoning\": \"product\"}"
DocMixed == "{\"intent_type\": \"mixed_query\", \"confidence\": 0.7, \"entities\": {}, \"reasoning\": \"both\"}"
DocFollowup == "{\"intent_type\": \"followup\", \"confidence\": 0.9, \"entities\": {\"followup_type\": \"more_details\"}, \"reasoning\": \"continuation\"}"
DocUnknown == "{\"intent_type\": \"unknown\", \"confidence\": 0.3, \"entities\": {}, \"reasoning\": \"unclear\"}"
DocGreeting == "{\"intent_type\": \"greeting\", \"confidence\": 0.9, \"entities\": {}, \"reasoning\": \"salutation\"}"
DocEscalation == "{\"intent_type\": \"escalation\", \"confidence\": 0.5, \"entities\": {}, \"reasoning\": \"wants a person\"}"
DocBadType == "{\"intent_type\": \"billing_query\", \"confidence\": 0.8, \"entities\": {}, \"reasoning\": \"billing\"}"
DocNoType == "{\"confidence\": 0.7}"
DocOverConfident == "{\"intent_type\": \"ticket_query\", \"confidence\": 1.5, \"entities\": {}, \"reasoning\": \"certain\"}"
DocNegative == "{\"intent_type\": \"knowledge_query\", \"confidence\": -0.2, \"entities\": {}, \"reasoning\": \"doubtful\"}"
DocArray == "[\"ticket_query\", 0.9]"
DocNull == "null"

JsonDocs ==
    (DocTicket :> JObj(AllKeys, "ticket_query", 90, Entity("ticket_id", "12345"), "ticket"))
    @@ (DocKnowledge :> JObj(AllKeys, "knowledge_query", 80, NoEntities, "product"))
    @@ (DocMixed :> JObj(AllKeys, "mixed_query", 70, NoEntities, "both"))
    @@ (DocFollowup :> JObj(AllKeys, "followup", 90, Entity("followup_type", "more_details"),
                            "continuation"))
    @@ (DocUnknown :> JObj(AllKeys, "unknown", 30, NoEntities, "unclear"))
    @@ (DocGreeting :> JObj(AllKeys, "greeting", 90, NoEntities, "salutation"))
    @@ (DocEscalation :> JObj(AllKeys, "escalation", 50, NoEntities, "wants a person"))
    @@ (DocBadType :> JObj(AllKeys, "billing_query", 80, NoEntities, "billing"))
    @@ (DocNoType :> JObj({"confidence"}, None, 70, NoEntities, None))
    @@ (DocOverConfident :> JObj(AllKeys, "ticket_query", 150, NoEntities, "certain"))
    @@ (DocNegative :> JObj(AllKeys, "knowledge_query", -20, NoEntities, "doubtful"))
    @@ (DocArray :> JOther("array"))
    @@ (DocNull :> JOther("null"))

JsonLookup(text) == IF text \in DOMAIN JsonDocs THEN JsonDocs[text] ELSE JsonError

json_loads(text) == JsonLookup(Strip(text))

(* The Markdown code fence: three backquotes, written with apostrophes     *)
(* because a TLA+ string cannot hold a backquote.                          *)
Fence == "'''"

(* What the model call of one turn can produce. *)
LLMTexts == {
    DocTicket, DocKnowledge, DocMixed, DocFollowup, DocUnknown, DocGreeting, DocEscalation,
    DocBadType, DocNoType, DocArray, DocNull,
    Fence \o "json\n" \o DocKnowledge \o "\n" \o Fence,
    Fence \o "\n" \o DocKnowledge \o "\n" \o Fence,
    "  " \o DocTicket \o "\n",
    "This looks like a ticket query.",
    ""
}

LLMReturn(text) == [raises |-> None, text |-> text]
LLMRaise(exc) == [raises |-> exc, text |-> ""]
LLMOutcomes == {LLMReturn(t) : t \in LLMTexts} \cup {LLMRaise("ClientError")}
NoLLM == LLMRaise("not called")

(* IntentType: the enumeration of base_agent.py. *)
IntentTypes == {"ticket_query", "knowledge_query", "mixed_query", "greeting",
                "escalation", "followup", "unknown"}

(* SupervisorAgent._parse_intent_response: the decoded value; a text that  *)
(* json.loads rejects gives the fixed "unknown" dictionary.                *)
RemoveLeadingFence(response) ==
    IF StartsWith(response, Fence \o "json") THEN SubSeq(response, 8, Len(response))
    ELSE response

RemoveTrailingFence(response) ==
    IF EndsWith(response, Fence) THEN SubSeq(response, 1, Len(response) - 3)
    ELSE response

ExceptJSONDecodeError(decoded) ==
    IF decoded.kind = "JSONDecodeError"
    THEN JObj(AllKeys, "unknown", 0, NoEntities, "Failed to parse response")
    ELSE decoded

_parse_intent_response(response) ==
    ExceptJSONDecodeError(json_loads(RemoveTrailingFence(RemoveLeadingFence(Strip(response)))))

DictGet(d, key, default) == IF key \in d.keys THEN d[key] ELSE default

(* A call result: the exception that escapes it (None if it returns) and   *)
(* the returned Intent.                                                    *)
Returned(intent) == [raises |-> None, intent |-> intent]
Raised(exc) == [raises |-> exc, intent |-> NoIntent]

(* The Intent built from the decoded value: a value that is not a dict has *)
(* no .get (AttributeError); IntentType(value) raises ValueError outside   *)
(* the enumeration.                                                        *)
IntentFromData(intent_data) ==
    IF intent_data.kind # "object" THEN Raised("AttributeError")
    ELSE IF DictGet(intent_data, "intent_type", "unknown") \notin IntentTypes
    THEN Raised("ValueError")
    ELSE Returned(Intent(DictGet(intent_data, "intent_type", "unknown"),
                         DictGet(intent_data, "confidence", 0),
                         DictGet(intent_data, "entities", NoEntities),
                         DictGet(intent_data, "reasoning", None)))

(* SupervisorAgent._analyze_intent_with_llm: _call_bedrock re-raises the   *)
(* client's exception; nothing is caught here.                             *)
_analyze_intent_with_llm(query, context, llm) ==
    IF llm.raises # None THEN Raised(llm.raises)
    ELSE IntentFromData(_parse_intent_response(llm.text))

(* A variant of ExceptException that lets the exception through. *)
ExceptException_Reraise(r) ==
    [raises |-> r.raises, intent |-> r.intent, llm_called |-> TRUE]

(* analyze_intent's handler: except Exception gives Intent(UNKNOWN, 0.0)   *)
(* whose reasoning records the error.                                      *)
ExceptException(r) ==
    IF r.raises # None
    THEN [raises |-> None,
          intent |-> Intent("unknown", 0, NoEntities,
                            "Error during intent analysis: " \o r.raises),
          llm_called |-> TRUE]
    ELSE [raises |-> None, intent |-> r.intent, llm_called |-> TRUE]

(* if fast_intent: return fast_intent; the fallback is evaluated only when *)
(* the classifier gave None.                                               *)
FastOrFallback(fast_intent, fallback) ==
    IF fast_intent # NoIntent
    THEN [raises |-> None, intent |-> fast_intent, llm_called |-> FALSE]
    ELSE fallback

(* A variant of analyze_intent that always asks the model. *)
analyze_intent_AlwaysLLM(query, context, llm) ==
    ExceptException(_analyze_intent_with_llm(query, context, llm))

(* SupervisorAgent.analyze_intent: the Intent it returns, whether the      *)
(* model was called, and the exception that escapes it.                    *)
analyze_intent(query, context, llm) ==
    FastOrFallback(classify_intent_fast(query),
                   ExceptException(_analyze_intent_with_llm(query, context, llm)))

(* SupervisorAgent.route_to_agents: the AgentTask list. *)
AgentTask(agent_type, query, priority, metadata) ==
    [agent_type |-> agent_type, query |-> query, priority |-> priority,
     metadata |-> metadata]

(* A variant of route_to_agents that gives the knowledge task of a mixed   *)
(* query the fallback priority.                                            *)
route_to_agents_MixedFallbackPriority(intent, query, context) ==
    IF intent.intent_type = "ticket_query"
    THEN <<AgentTask("ticket", query, 1, Entity("intent", intent.intent_type))>>
    ELSE IF intent.intent_type = "knowledge_query"
    THEN <<AgentTask("knowledge", query, 1, Entity("intent", intent.intent_type))>>
    ELSE IF intent.intent_type = "mixed_query"
    THEN <<AgentTask("ticket", query, 1,
                     Entity("intent", intent.intent_type) @@ Entity("mixed", "True")),
           AgentTask("knowledge", query, 2,
                     Entity("intent", intent.intent_type) @@ Entity("mixed", "True"))>>
    ELSE IF intent.intent_type = "greeting" THEN <<>>
    ELSE IF intent.intent_type = "escalation" THEN <<>>
    ELSE <<AgentTask("knowledge", query, 2,
                     Entity("intent", intent.intent_type) @@ Entity("fallback", "True"))>>

route_to_agents(intent, query, context) ==
    IF intent.intent_type = "ticket_query"
    THEN <<AgentTask("ticket", query, 1, Entity("intent", intent.intent_type))>>
    ELSE IF intent.intent_type = "knowledge_query"
    THEN <<AgentTask("knowledge", query, 1, Entity("intent", intent.intent_type))>>
    ELSE IF intent.intent_type = "mixed_query"
    THEN <<AgentTask("ticket", query, 1,
                     Entity("intent", intent.intent_type) @@ Entity("mixed", "True")),
           AgentTask("knowledge", query, 1,
                     Entity("intent", intent.intent_type) @@ Entity("mixed", "True"))>>
    ELSE IF intent.intent_type = "greeting" THEN <<>>
    ELSE IF intent.intent_type = "escalation" THEN <<>>
    ELSE <<AgentTask("knowledge", query, 2,
                     Entity("intent", intent.intent_type) @@ Entity("fallback", "True"))>>

-----------------------------------------------------------------------------
(* TicketAgent (agents/ticket_agent.py).                                   *)

(* ConversationContext: the part of the session the core reads. *)
Message(content, speaker) == [content |-> content, speaker |-> speaker]
Context(h) == [conversation_history |-> h]

D3 == Cat(<<Cls("d"), Cls("d"), Cls("d")>>)
D1to4 == Cat(<<Cls("d"), Opt(Cat(<<Cls("d"), Opt(Cat(<<Cls("d"), Opt(Cls("d"))>>))>>))>>)

(* The patterns of _get_last_ticket_id_from_context (matched with          *)
(* re.IGNORECASE).                                                         *)
context_id_patterns == <<
    Grp(WordB, Cat(<<Lit("it-"), D3>>), WordB),
    Grp(Cat(<<WordB, Lit("ticket"), S1>>), Cat(<<Lit("it-"), D3>>), WordB),
    Grp(Cat(<<WordB, Lit("mighty"), S1, Lit("ticket"), S1>>), D1, WordB),
    Grp(Cat(<<WordB, Lit("ticket"), S1>>), D1, WordB)
>>

HistoryWindow == 10

(* The ticket ID one message yields: group 1 of the first pattern that     *)
(* matches it, zero-padded behind "IT-" when it is a bare number.          *)
PadBareNumber(ticket_id, otherwise) ==
    IF ticket_id = NoMatch THEN otherwise
    ELSE IF IsDigitStr(ticket_id) THEN "IT-" \o ZFill(ticket_id, 3)
    ELSE ticket_id

RECURSIVE MessageIdFrom(_, _)
MessageIdFrom(content, k) ==
    IF k > Len(context_id_patterns) THEN None
    ELSE PadBareNumber(CaptureIgnoreCase(context_id_patterns[k], content),
                       MessageIdFrom(content, k + 1))

MessageTicketId(content) == MessageIdFrom(content, 1)

(* for message in reversed(conversation_history[-10:]) *)
RECURSIVE ScanBack(_, _, _)
ScanBack(h, k, first) ==
    IF k < first THEN None
    ELSE OrElse(MessageTicketId(h[k].content), ScanBack(h, k - 1, first))

WindowStart(h, n) == IF Len(h) > n THEN Len(h) - n + 1 ELSE 1

(* A variant of _get_last_ticket_id_from_context that scans the whole      *)
(* history.                                                                *)
_get_last_ticket_id_from_context_WholeHistory(context) ==
    IF context.conversation_history = <<>> THEN None
    ELSE ScanBack(context.conversation_history, Len(context.conversation_history), 1)

_get_last_ticket_id_from_context(context) ==
    IF context.conversation_history = <<>> THEN None
    ELSE ScanBack(context.conversation_history, Len(context.conversation_history),
                  WindowStart(context.conversation_history, HistoryWindow))

(* TicketAgent._normalize_ticket_id (the agent's own copy, the same text). *)
TicketAgent_normalize_ticket_id(raw) == NormalizeUpper(UpperStr(Strip(raw)))

(* TicketAgent._parse_query_criteria, the ticket_id of the SearchCriteria  *)
(* it builds (the category, priority, status, team and keyword fields are  *)
(* filled independently of ticket_id and are not part of this model).      *)
search_patterns == <<
    Cat(<<WordB, Lit("list"), S1, Opt(Cat(<<Lit("all"), S1>>)), Lit("ticket"), Opt(Lit("s")),
          WordB>>),
    Cat(<<WordB, Lit("show"), S1, Opt(Cat(<<Lit("all"), S1>>)), Lit("ticket"), Opt(Lit("s")),
          WordB>>),
    Cat(<<WordB, Lit("find"), S1, Opt(Cat(<<Lit("all"), S1>>)), Lit("ticket"), Opt(Lit("s")),
          WordB>>),
    Cat(<<WordB, Lit("all"), S1, Lit("ticket"), Opt(Lit("s")), S1,
          Words(<<"under", "in", "with">>), WordB>>),
    Cat(<<WordB, Lit("ticket"), Opt(Lit("s")), S1, Words(<<"under", "in">>), S1,
          Opt(Cat(<<Lit("the"), S1>>)), Lit("category"), WordB>>)
>>

simple_search_indicators == {"list all", "show all", "find all"}

contextual_indicators == {"who was it", "what was the", "that ticket", "it assigned",
                          "that particular ticket", "what was", "who was"}

contextual_patterns == <<
    Cat(<<WordB, Words(<<"that", "the", "this">>), S1, Opt(Cat(<<Lit("particular"), S1>>)),
          Lit("ticket"), WordB>>),
    Cat(<<WordB, Words(<<"that", "the", "this">>), S1, Words(<<"one", "ticket">>), WordB>>),
    Cat(<<WordB, Lit("of"), S1, Words(<<"that", "it">>), WordB>>),
    Cat(<<WordB, Alt(<<Lit("who"), Cat(<<Lit("which"), S1, Lit("team")>>)>>), S1,
          Opt(Cat(<<Lit("was"), S1>>)), Opt(Cat(<<Lit("it"), S1>>)), Lit("assigned")>>),
    Cat(<<WordB, Lit("what"), S1, Opt(Cat(<<Lit("was"), S1>>)), Opt(Cat(<<Lit("the"), S1>>)),
          Lit("resolution")>>),
    Cat(<<WordB, Alt(<<Cat(<<Lit("it"), S1, Lit("assigned")>>),
                       Cat(<<Lit("assigned"), S1, Lit("to")>>)>>)>>),
    Cat(<<WordB, Lit("resolution"), S1, Words(<<"given", "provided">>)>>),
    Cat(<<WordB, Lit("which"), S1, Lit("team"), S1, Words(<<"gave", "provided">>)>>),
    Cat(<<WordB, Lit("team"), S1, Words(<<"gave", "provided">>)>>),
    Cat(<<WordB, Lit("given"), S1, Lit("by"), S1, Opt(Cat(<<Lit("the"), S1>>)), Lit("team")>>)
>>

agent_it_patterns == <<
    Grp(Cat(<<WordB, Lit("it"), S1>>), D1, WordB),
    Grp(Cat(<<WordB, Lit("it-")>>), D1, WordB)
>>

agent_ticket_id_patterns == <<
    Grp(Cat(<<Lit("my"), S1, Lit("ticket"), S1, Lit("is"), S1>>), D1to4, WordB),
    Grp(Cat(<<Lit("ticket"), S1>>), D1to4, WordB),
    Grp(Cat(<<Words(<<"of", "for">>), S1, Opt(Cat(<<Lit("ticket"), S1>>))>>), D1to4, WordB),
    Grp(Lit("#"), D1to4, WordB)
>>

AnySearch(res, s) == \E k \in 1..Len(res) : Search(res[k], s)

is_search_query(query_lower) ==
    /\ \/ AnySearch(search_patterns, query_lower)
       \/ AnyIn(query_lower, simple_search_indicators)
    /\ ~AnyIn(query_lower, contextual_indicators)

RECURSIVE AgentItIdFrom(_, _)
AgentItIdFrom(query_lower, k) ==
    IF k > Len(agent_it_patterns) THEN None
    ELSE PadNumber(Capture(agent_it_patterns[k], query_lower),
                   AgentItIdFrom(query_lower, k + 1))

(* re.findall gives the group of every match; the first one is taken. *)
NormalizeFound(raw_id, otherwise) ==
    IF raw_id # NoMatch THEN TicketAgent_normalize_ticket_id(raw_id) ELSE otherwise

RECURSIVE AgentOtherIdFrom(_, _)
AgentOtherIdFrom(query_lower, k) ==
    IF k > Len(agent_ticket_id_patterns) THEN None
    ELSE NormalizeFound(Capture(agent_ticket_id_patterns[k], query_lower),
                        AgentOtherIdFrom(query_lower, k + 1))

SearchCriteria(ticket_id) == [ticket_id |-> ticket_id]

(* A variant of ContextualOr that never consults the history. *)
ContextualOr_NoContext(query_lower, last_ticket_id) ==
    SearchCriteria(AgentOtherIdFrom(query_lower, 1))

(* No direct IT id: a contextual reference takes the ID of the history,    *)
(* when there is one; else the other ticket-ID patterns are tried.         *)
ContextualOr(query_lower, last_ticket_id) ==
    IF AnySearch(contextual_patterns, query_lower) /\ last_ticket_id # None
    THEN SearchCriteria(last_ticket_id)
    ELSE SearchCriteria(AgentOtherIdFrom(query_lower, 1))

DirectOr(direct, query_lower, context) ==
    IF direct # None THEN SearchCriteria(direct)
    ELSE ContextualOr(query_lower, _get_last_ticket_id_from_context(context))

ParseLower(query_lower, context) ==
    IF is_search_query(query_lower) THEN SearchCriteria(None)
    ELSE DirectOr(AgentItIdFrom(query_lower, 1), query_lower, context)

_parse_query_criteria(query, context) == ParseLower(LowerStr(query), context)

-----------------------------------------------------------------------------
(* The results of the agents and the escalation decisions made on them.    *)

(* AgentResult, with the part of its data the escalation decisions read.   *)
AgentResult(agent_name, data, confidence, requires_escalation) ==
    [agent_name |-> agent_name, data |-> data, confidence |-> confidence,
     requires_escalation |-> requires_escalation]

Data(type, found, relevant_chunks, intent_type) ==
    [type |-> type, found |-> found, relevant_chunks |-> relevant_chunks,
     intent_type |-> intent_type]

(* TicketAgent.process_query after the criteria are parsed. What the data  *)
(* store holds is outside the model: a ticket looked up by ID is found or  *)
(* not (confidence 0.95 either way), a search finds tickets or none        *)
(* (confidence 0.1).                                                       *)
TicketResults(parsed) ==
    IF parsed.ticket_id # None
    THEN {AgentResult("TicketAgent", Data("specific_ticket", found, 0, None), 95, FALSE) :
            found \in BOOLEAN}
    ELSE {AgentResult("TicketAgent", Data("search_results", FALSE, 0, None), confidence,
                      confidence < 60) : confidence \in {10, 80}}

(* KnowledgeAgent.process_query: the search gives relevant chunks or none. *)
is_followup(query) ==
    AnyIn(LowerStr(query), {"it", "that", "this", "smaller", "shorter", "more", "less"})

KnowledgeResult(relevant_chunks, followup) ==
    AgentResult("KnowledgeAgent", Data("knowledge_search", FALSE, relevant_chunks, None),
                IF relevant_chunks > 0 THEN 75 ELSE 0,
                relevant_chunks = 0 /\ ~followup)

KnowledgeResults(query) == {KnowledgeResult(n, is_followup(query)) : n \in {0, 2}}

(* len(query.lower().split()) *)
WordStarts(s) ==
    {k \in 1..Len(s) : ~IsSpaceChar(CharAt(s, k)) /\ (k = 1 \/ IsSpaceChar(CharAt(s, k - 1)))}

WordCount(s) == Cardinality(WordStarts(s))

(* ResponseHumanizer._is_escalation_request *)
explicit_escalation_keywords ==
    {"escalate", "transfer", "supervisor", "speak to human", "talk to person"}

follow_up_indicators == {
    "another question", "next question", "different question", "new question",
    "more details", "more information", "tell me more", "continue",
    "yes", "no", "ok", "sure", "please"
}

NonSupervisor(results) == SelectSeq(results, LAMBDA r : r.agent_name # "SupervisorAgent")

all_require_escalation(results) == \A k \in 1..Len(results) : results[k].requires_escalation

has_useful_data(results) ==
    \E k \in 1..Len(results) :
        /\ results[k].data.type \in {"specific_ticket", "search_results", "knowledge_search"}
        /\ results[k].data.found \/ results[k].data.relevant_chunks > 0

unclear_indicators(query_lower) ==
    \/ WordCount(query_lower) <= 3
    \/ AnyIn(query_lower, {"po", "sulus", "ops"})
    \/ Strip(query_lower) \in {"no", "yes", "ok", "fine"}

SupervisorSawEscalation(results) ==
    \E k \in 1..Len(results) :
        /\ results[k].agent_name = "SupervisorAgent"
        /\ results[k].data.intent_type = "escalation"

AgentsGaveUp(others, query_lower) ==
    IF others = <<>> THEN FALSE
    ELSE IF all_require_escalation(others) /\ ~has_useful_data(others)
            /\ unclear_indicators(query_lower)
    THEN FALSE
    ELSE all_require_escalation(others) /\ ~has_useful_data(others)

EscalationRequestLower(results, query_lower) ==
    IF SupervisorSawEscalation(results) THEN TRUE
    ELSE IF AnyIn(query_lower, explicit_escalation_keywords) THEN TRUE
    ELSE IF AnyIn(query_lower, follow_up_indicators) THEN FALSE
    ELSE AgentsGaveUp(NonSupervisor(results), query_lower)

_is_escalation_request(results, query) == EscalationRequestLower(results, LowerStr(query))

(* ResponseHumanizer._get_escalation_response: random.choice of these. *)
escalation_responses == {
    "I understand you'd like to speak with someone else. Let me connect you with a human agent who can help you better.",
    "Of course, let me get you connected with one of our support specialists right away.",
    "No problem, I'll transfer you to a human agent who can assist you further.",
    "I hear you - let me get you connected with someone who can provide more personalized help."
}

(* VoiceAssistantOrchestrator._calculate_overall_confidence: the average   *)
(* weighted 0.3 for the supervisor and 0.4 for an agent, in hundredths     *)
(* (rounded down).                                                         *)
Weight(agent_name) == IF agent_name = "SupervisorAgent" THEN 3 ELSE 4

RECURSIVE WeightedSum(_)
WeightedSum(results) ==
    IF results = <<>> THEN 0
    ELSE Head(results).confidence * Weight(Head(results).agent_name)
         + WeightedSum(Tail(results))

RECURSIVE TotalWeight(_)
TotalWeight(results) ==
    IF results = <<>> THEN 0
    ELSE Weight(Head(results).agent_name) + TotalWeight(Tail(results))

_calculate_overall_confidence(results) ==
    IF results = <<>> THEN 0 ELSE WeightedSum(results) \div TotalWeight(results)

(* SupervisorAgent.should_escalate *)
escalation_threshold == 60

PolicyContext(h, scores) == [conversation_history |-> h, confidence_scores |-> scores]

LastN(xs, n) == IF Len(xs) > n THEN SubSeq(xs, Len(xs) - n + 1, Len(xs)) ELSE xs

AsksForHuman(recent_messages) ==
    \E k \in 1..Len(recent_messages) :
        AnyIn(LowerStr(recent_messages[k].content),
              {"human", "person", "escalate", "supervisor", "manager"})

(* A variant of RepeatedLowConfidence with the 0.6 threshold of            *)
(* ConversationContext.has_low_confidence_pattern.                         *)
RepeatedLowConfidence_RoutingThreshold(scores) ==
    /\ Len(scores) >= 3
    /\ \A k \in 1..3 : LastN(scores, 3)[k] < escalation_threshold

RepeatedLowConfidence(scores) ==
    /\ Len(scores) >= 3
    /\ \A k \in 1..3 : LastN(scores, 3)[k] < 70

should_escalate(confidence, context) ==
    \/ confidence < escalation_threshold
    \/ AsksForHuman(LastN(context.conversation_history, 2))
    \/ RepeatedLowConfidence(context.confidence_scores)

-----------------------------------------------------------------------------
(* The session and the turn loop of VoiceAssistantOrchestrator (main.py).  *)

VARIABLES
    history,            \* current_session.conversation_history
    last_response_data, \* current_session.last_response_data
    confidence_scores,  \* current_session.confidence_scores
    escalation_count,   \* metrics.escalation_count: calls of _handle_escalation
    processing_query,   \* the orchestrator's flag
    scheduled,          \* _process_user_query tasks created and not yet started
    pc,                 \* where the running _process_user_query is
    user_query,         \* its query argument
    llm_outcome,        \* what the model call of analyze_intent produced
    llm_calls,          \* model calls made for classification in this turn
    raised,             \* exception that escaped analyze_intent
    user_intent,        \* the Intent analyze_intent returned
    tasks,              \* the list route_to_agents returned
    supervisor_result,  \* the AgentResult of SupervisorAgent.process_query
    agents_called,      \* names of the agents run by _coordinate_agents_simple
    agent_results,      \* the AgentResult list _coordinate_agents_simple builds
    criteria,           \* the SearchCriteria the ticket agent parsed
    resolved,           \* result of a direct _get_last_ticket_id_from_context call
    escalate,           \* result of a direct should_escalate call
    inputs              \* final transcripts delivered so far

session == <<history, last_response_data, confidence_scores>>
locals == <<user_query, llm_outcome, llm_calls, raised, user_intent, tasks, supervisor_result,
            agents_called, agent_results, criteria>>
policy == <<escalation_count, escalate>>
vars == <<history, last_response_data, confidence_scores, escalation_count, processing_query,
          scheduled, pc, user_query, llm_outcome, llm_calls, raised, user_intent, tasks,
          supervisor_result, agents_called, agent_results, criteria, resolved, escalate, inputs>>

MaxInputs == 2

InSeq(x, xs) == \E k \in 1..Len(xs) : xs[k] = x

(* The reply text comes from the response humanizer (templates and the     *)
(* language model), outside this model: it names the ticket that was       *)
(* looked up, or it does not.                                              *)
AssistantReplies(called, found) ==
    {"Could you rephrase that?"} \cup
    (IF InSeq("TicketAgent", called) /\ found.ticket_id # None
     THEN {"Ticket " \o found.ticket_id \o " is open."}
     ELSE {})

(* voice_input.confidence, the recognizer's confidence in the transcript. *)
VoiceConfidences == {90}

feedback_phrases == {"what else would you like", "yes i'm listening",
                     "sure what did you want", "of course go ahead",
                     "what else can i help", "you have another question"}

NoResult == [intent |-> NoIntent, routing_decision |-> <<>>, confidence |-> 0,
             requires_escalation |-> FALSE]
NoData == [original_query |-> None, response |-> None, agent_results |-> <<>>]
NoCriteria == SearchCriteria(None)

NoLocals ==
    /\ user_query = ""
    /\ llm_outcome = NoLLM
    /\ llm_calls = 0
    /\ raised = None
    /\ user_intent = NoIntent
    /\ tasks = <<>>
    /\ supervisor_result = NoResult
    /\ agents_called = <<>>
    /\ agent_results = <<>>
    /\ criteria = NoCriteria

ClearLocals ==
    /\ user_query' = ""
    /\ llm_outcome' = NoLLM
    /\ llm_calls' = 0
    /\ raised' = None
    /\ user_intent' = NoIntent
    /\ tasks' = <<>>
    /\ supervisor_result' = NoResult
    /\ agents_called' = <<>>
    /\ agent_results' = <<>>
    /\ criteria' = NoCriteria

Init ==
    /\ history = <<>>
    /\ last_response_data = NoData
    /\ confidence_scores = <<>>
    /\ escalation_count = 0
    /\ escalate = FALSE
    /\ processing_query = FALSE
    /\ scheduled = <<>>
    /\ pc = "idle"
    /\ NoLocals
    /\ resolved = None
    /\ inputs = 0

(* _handle_voice_input: a final, non-blank transcript that arrives while   *)
(* no query is being processed and is not the assistant's own voice is     *)
(* appended to the history and a _process_user_query task is created.      *)
HandleVoiceInput(transcript, confidence) ==
    /\ inputs < MaxInputs
    /\ Strip(transcript) # ""
    /\ ~processing_query
    /\ ~AnyIn(LowerStr(transcript), feedback_phrases)
    /\ history' = Append(history, Message(transcript, "user"))
    /\ confidence_scores' = Append(confidence_scores, confidence)
    /\ scheduled' = Append(scheduled, transcript)
    /\ inputs' = inputs + 1
    /\ UNCHANGED <<last_response_data, processing_query, pc, locals, resolved, policy>>

(* _process_user_query, entry: returns at once when a query is already     *)
(* being processed, else takes the flag.                                   *)
StartProcess ==
    /\ scheduled # <<>>
    /\ scheduled' = Tail(scheduled)
    /\ IF processing_query
       THEN UNCHANGED <<processing_query, pc, locals>>
       ELSE /\ processing_query' = TRUE
            /\ pc' = "analyze"
            /\ user_query' = Head(scheduled)
            /\ UNCHANGED <<llm_outcome, llm_calls, raised, user_intent, tasks, supervisor_result,
                           agents_called, agent_results, criteria>>
    /\ UNCHANGED <<session, resolved, policy, inputs>>

(* SupervisorAgent.process_query, first half: analyze_intent. The model    *)
(* produces an outcome only when analyze_intent reaches the call.          *)
ModelOutcomes(fast_intent) == IF fast_intent = NoIntent THEN LLMOutcomes ELSE {NoLLM}

Analyzed(outcome, r) ==
    /\ user_intent' = r.intent
    /\ raised' = r.raises
    /\ llm_calls' = IF r.llm_called THEN llm_calls + 1 ELSE llm_calls
    /\ llm_outcome' = IF r.llm_called THEN outcome ELSE NoLLM

AnalyzeIntent ==
    /\ pc = "analyze"
    /\ \E outcome \in ModelOutcomes(classify_intent_fast(user_query)) :
         Analyzed(outcome, analyze_intent(user_query, Context(history), outcome))
    /\ pc' = "route"
    /\ UNCHANGED <<session, processing_query, scheduled, user_query, tasks, supervisor_result,
                   agents_called, agent_results, criteria, resolved, policy, inputs>>

RECURSIVE AgentTypes(_)
AgentTypes(ts) == IF ts = <<>> THEN <<>> ELSE <<Head(ts).agent_type>> \o AgentTypes(Tail(ts))

(* SupervisorAgent.process_query, second half: route_to_agents and the     *)
(* AgentResult handed back to the orchestrator.                            *)
(* A variant of Routed whose escalation flag follows the confidence only. *)
Routed_ThresholdOnly(agent_tasks) ==
    /\ tasks' = agent_tasks
    /\ supervisor_result' =
         [intent |-> user_intent,
          routing_decision |-> AgentTypes(agent_tasks),
          confidence |-> user_intent.confidence,
          requires_escalation |-> user_intent.confidence < escalation_threshold]

Routed(agent_tasks) ==
    /\ tasks' = agent_tasks
    /\ supervisor_result' =
         [intent |-> user_intent,
          routing_decision |-> AgentTypes(agent_tasks),
          confidence |-> user_intent.confidence,
          requires_escalation |-> (user_intent.intent_type = "escalation"
                                   \/ user_intent.confidence < escalation_threshold)]

RouteToAgents ==
    /\ pc = "route"
    /\ Routed(route_to_agents(user_intent, user_query, Context(history)))
    /\ pc' = "agents"
    /\ UNCHANGED <<session, processing_query, scheduled, user_query, llm_outcome, llm_calls, raised,
                   user_intent, agents_called, agent_results, criteria, resolved, policy, inputs>>

(* _coordinate_agents_simple: starts from the supervisor's result, awaits  *)
(* the ticket agent, then the knowledge agent, as the routing decision     *)
(* names them.                                                             *)
SupervisorEntry(result) ==
    AgentResult("SupervisorAgent", Data("routing", FALSE, 0, result.intent.intent_type),
                result.confidence, result.requires_escalation)

TicketCalled(parsed) ==
    /\ criteria' = parsed
    /\ agents_called' = <<"TicketAgent">>
    /\ \E ticket_result \in TicketResults(parsed) :
         agent_results' = <<SupervisorEntry(supervisor_result), ticket_result>>

CallTicketAgent ==
    /\ pc = "agents"
    /\ IF InSeq("ticket", supervisor_result.routing_decision)
       THEN TicketCalled(_parse_query_criteria(user_query, Context(history)))
       ELSE /\ agent_results' = <<SupervisorEntry(supervisor_result)>>
            /\ UNCHANGED <<agents_called, criteria>>
    /\ pc' = "knowledge"
    /\ UNCHANGED <<session, processing_query, scheduled, user_query, llm_outcome, llm_calls, raised,
                   user_intent, tasks, supervisor_result, resolved, policy, inputs>>

CallKnowledgeAgent ==
    /\ pc = "knowledge"
    /\ IF InSeq("knowledge", supervisor_result.routing_decision)
       THEN /\ agents_called' = Append(agents_called, "KnowledgeAgent")
            /\ \E knowledge_result \in KnowledgeResults(user_query) :
                 agent_results' = Append(agent_results, knowledge_result)
       ELSE UNCHANGED <<agents_called, agent_results>>
    /\ pc' = "respond"
    /\ UNCHANGED <<session, processing_query, scheduled, user_query, llm_outcome, llm_calls, raised,
                   user_intent, tasks, supervisor_result, criteria, resolved, policy, inputs>>

CoordinateAgents == CallTicketAgent \/ CallKnowledgeAgent

(* _generate_response: the query handed to the humanizer is the last user  *)
(* message of the history; a hand-off reply is given when the humanizer    *)
(* sees an escalation request.                                             *)
RECURSIVE LastUserMessage(_, _)
LastUserMessage(h, k) ==
    IF k = 0 THEN ""
    ELSE IF h[k].speaker = "user" THEN h[k].content
    ELSE LastUserMessage(h, k - 1)

HumanizedReplies(results, original_query, called, found) ==
    IF _is_escalation_request(results, original_query) THEN escalation_responses
    ELSE AssistantReplies(called, found)

(* A variant of RequiresEscalation that reads the first two results only. *)
RequiresEscalation_FirstTwo(results) ==
    \E k \in 1..Len(results) : k <= 2 /\ results[k].requires_escalation

RequiresEscalation(results) == \E k \in 1..Len(results) : results[k].requires_escalation

(* _process_user_query, end: the reply is generated and appended to the    *)
(* history with the overall confidence, the snapshot for follow-ups is     *)
(* stored, _handle_escalation is called when any result requires           *)
(* escalation, and the flag is released.                                   *)
GenerateResponse ==
    /\ pc = "respond"
    /\ \E response \in HumanizedReplies(agent_results, LastUserMessage(history, Len(history)),
                                         agents_called, criteria) :
         /\ history' = Append(history, Message(response, "assistant"))
         /\ last_response_data' = [original_query |-> user_query, response |-> response,
                                   agent_results |-> agent_results]
    /\ confidence_scores' =
         Append(confidence_scores, _calculate_overall_confidence(agent_results))
    /\ escalation_count' =
         IF RequiresEscalation(agent_results) THEN escalation_count + 1 ELSE escalation_count
    /\ processing_query' = FALSE
    /\ pc' = "idle"
    /\ ClearLocals
    /\ UNCHANGED <<scheduled, resolved, escalate, inputs>>

Next ==
    \/ \E transcript \in DialogQueries, confidence \in VoiceConfidences :
         HandleVoiceInput(transcript, confidence)
    \/ StartProcess
    \/ AnalyzeIntent
    \/ RouteToAgents
    \/ CoordinateAgents
    \/ GenerateResponse

Spec == Init /\ [][Next]_vars

-----------------------------------------------------------------------------
(* Sessions with barge-in interruptions and failing turns. The end of      *)
(* _process_user_query is taken in two steps here, because the reply is    *)
(* spoken (an await) between the append to the history and the snapshot.   *)

SessionQueries == {"What is the status of IT-001?", "I want to talk to a human"}

InterruptionConfidences == {40, 90}

(* event.confidence >= 0.5 *)
MinInterruptionConfidence == 50

(* _handle_interruption: speech is stopped; an interruption of at least    *)
(* one word and confidence 0.5 is appended to the history, whether or not  *)
(* a query is being processed, and a _process_user_query task is created.  *)
HandleInterruption(transcript, confidence) ==
    /\ inputs < MaxInputs
    /\ inputs' = inputs + 1
    /\ IF WordCount(transcript) >= 1 /\ confidence >= MinInterruptionConfidence
       THEN /\ history' = Append(history, Message(transcript, "user"))
            /\ confidence_scores' = Append(confidence_scores, confidence)
            /\ scheduled' = Append(scheduled, transcript)
       ELSE UNCHANGED <<history, confidence_scores, scheduled>>
    /\ UNCHANGED <<last_response_data, processing_query, pc, locals, resolved, policy>>

(* _process_user_query from _generate_response to add_message: the reply   *)
(* is made for the last user message of the history and appended.          *)
Respond ==
    /\ pc = "respond"
    /\ \E response \in HumanizedReplies(agent_results, LastUserMessage(history, Len(history)),
                                         agents_called, criteria) :
         history' = Append(history, Message(response, "assistant"))
    /\ confidence_scores' =
         Append(confidence_scores, _calculate_overall_confidence(agent_results))
    /\ pc' = "speak"
    /\ UNCHANGED <<last_response_data, processing_query, scheduled, locals, resolved, policy,
                   inputs>>

(* The reply of the running turn: the last assistant message (only the     *)
(* running turn appends assistant messages).                               *)
RECURSIVE LastAssistantMessage(_, _)
LastAssistantMessage(h, k) ==
    IF k = 0 THEN None
    ELSE IF h[k].speaker = "assistant" THEN h[k].content
    ELSE LastAssistantMessage(h, k - 1)

(* A variant of StoreSnapshot that keeps the snapshot of the earlier turn. *)
StoreSnapshot_Stale ==
    /\ pc = "speak"
    /\ escalation_count' =
         IF RequiresEscalation(agent_results) THEN escalation_count + 1 ELSE escalation_count
    /\ processing_query' = FALSE
    /\ pc' = "idle"
    /\ ClearLocals
    /\ UNCHANGED <<session, scheduled, resolved, escalate, inputs>>

(* A variant of Finally that leaves the flag as it is. *)
Finally_FlagKept ==
    /\ UNCHANGED processing_query
    /\ pc' = "idle"

(* finally: self.processing_query = False *)
Finally ==
    /\ processing_query' = FALSE
    /\ pc' = "idle"

(* _process_user_query after speak: the snapshot for follow-ups, the       *)
(* escalation check, and the finally clause.                               *)
StoreSnapshot ==
    /\ pc = "speak"
    /\ last_response_data' =
         [original_query |-> user_query,
          response |-> LastAssistantMessage(history, Len(history)),
          agent_results |-> agent_results]
    /\ escalation_count' =
         IF RequiresEscalation(agent_results) THEN escalation_count + 1 ELSE escalation_count
    /\ Finally
    /\ ClearLocals
    /\ UNCHANGED <<history, confidence_scores, scheduled, resolved, escalate, inputs>>

(* The except clauses of _process_user_query: an await of the try block    *)
(* raises (asyncio.TimeoutError or another Exception) before the           *)
(* supervisor is called, when the thinking sound is awaited, or while the  *)
(* reply is spoken; the fallback response is spoken and nothing is stored. *)
FailurePoints == {"analyze", "respond", "speak"}

FailTurn(exc) ==
    /\ pc \in FailurePoints
    /\ Finally
    /\ user_query' = ""
    /\ llm_outcome' = NoLLM
    /\ llm_calls' = 0
    /\ raised' = exc
    /\ user_intent' = NoIntent
    /\ tasks' = <<>>
    /\ supervisor_result' = NoResult
    /\ agents_called' = <<>>
    /\ agent_results' = <<>>
    /\ criteria' = NoCriteria
    /\ UNCHANGED <<session, scheduled, resolved, policy, inputs>>

NextSession ==
    \/ \E transcript \in SessionQueries, confidence \in VoiceConfidences :
         HandleVoiceInput(transcript, confidence)
    \/ \E transcript \in SessionQueries, confidence \in InterruptionConfidences :
         HandleInterruption(transcript, confidence)
    \/ StartProcess
    \/ AnalyzeIntent
    \/ RouteToAgents
    \/ CoordinateAgents
    \/ Respond
    \/ StoreSnapshot
    \/ \E exc \in {"TimeoutError", "Exception"} : FailTurn(exc)

SpecSession == Init /\ [][NextSession]_vars

-----------------------------------------------------------------------------
(* Sessions in which no turn fails, with the scheduling of the event loop: *)
(* a created task is started, and every await of a started turn returns.   *)

NextLive ==
    \/ \E transcript \in SessionQueries, confidence \in VoiceConfidences :
         HandleVoiceInput(transcript, confidence)
    \/ \E transcript \in SessionQueries, confidence \in InterruptionConfidences :
         HandleInterruption(transcript, confidence)
    \/ StartProcess
    \/ AnalyzeIntent
    \/ RouteToAgents
    \/ CoordinateAgents
    \/ Respond
    \/ StoreSnapshot

(* A started turn moves on: at each position of a turn exactly one of     *)
(* AnalyzeIntent, RouteToAgents, CallTicketAgent, CallKnowledgeAgent,      *)
(* Respond and StoreSnapshot is enabled, and no other step of NextLive     *)
(* changes the position of a started turn.                                 *)
Positions == {"idle", "analyze", "route", "agents", "knowledge", "respond", "speak"}

TurnAdvances == pc # "idle" /\ pc' \in Positions

SpecLive == Init /\ [][NextLive]_vars /\ WF_vars(StartProcess) /\ WF_pc(TurnAdvances)

-----------------------------------------------------------------------------
(* The fast classifier as a function of the query alone. *)

InitClassify ==
    /\ history = <<>>
    /\ last_response_data = NoData
    /\ processing_query = FALSE
    /\ scheduled = <<>>
    /\ pc = "query"
    /\ user_query \in Queries
    /\ llm_outcome = NoLLM
    /\ llm_calls = 0
    /\ raised = None
    /\ user_intent = NoIntent
    /\ tasks = <<>>
    /\ supervisor_result = NoResult
    /\ agents_called = <<>>
    /\ agent_results = <<>>
    /\ criteria = NoCriteria
    /\ resolved = None
    /\ confidence_scores = <<>>
    /\ escalation_count = 0
    /\ escalate = FALSE
    /\ inputs = 0

ClassifyQuery ==
    /\ pc = "query"
    /\ user_intent' = classify_intent(user_query)
    /\ pc' = "classified"
    /\ UNCHANGED <<session, processing_query, scheduled, user_query, llm_outcome, llm_calls, raised,
                   tasks, supervisor_result, agents_called, agent_results, criteria, resolved,
                   policy, inputs>>

NextClassify == ClassifyQuery

SpecClassify == InitClassify /\ [][NextClassify]_vars

-----------------------------------------------------------------------------
(* The Context Resolver over histories of up to MaxHistory messages, of    *)
(* which at most MaxMentions name a ticket.                                *)

MaxHistory == 11
MaxMentions == 2

ContextMessages == {
    Message("okay", "user"),
    Message("Ticket IT-001 is open.", "assistant"),
    Message("what about ticket 7", "user"),
    Message("IT-002 and ticket 9", "user")
}

Mentions(m) == MessageTicketId(m.content) # None
MentioningMessages == {m \in ContextMessages : Mentions(m)}
MentionCount(h) == Cardinality({k \in 1..Len(h) : h[k] \in MentioningMessages})

InitResolver ==
    /\ Init
    /\ pc = "idle"

AddMessage(m) ==
    /\ pc = "idle"
    /\ Len(history) < MaxHistory
    /\ MentionCount(Append(history, m)) <= MaxMentions
    /\ history' = Append(history, m)
    /\ UNCHANGED <<last_response_data, confidence_scores, processing_query, scheduled, pc, locals,
                   resolved, policy, inputs>>

ResolveContext ==
    /\ pc = "idle"
    /\ resolved' = _get_last_ticket_id_from_context(Context(history))
    /\ pc' = "resolved"
    /\ UNCHANGED <<session, processing_query, scheduled, locals, policy, inputs>>

NextResolver ==
    \/ \E m \in ContextMessages : AddMessage(m)
    \/ ResolveContext

SpecResolver == InitResolver /\ [][NextResolver]_vars

-----------------------------------------------------------------------------
(* TicketAgent._parse_query_criteria as a function of the query and of the *)
(* conversation history.                                                   *)

ParsePhrases == {
    "what was the resolution for", "that ticket", "who was it assigned to",
    "ticket 14", "#5", "IT-002", "it 7", "It-12345",
    "list all tickets", "status of"
}

ParseQueries ==
    UNION {{JoinParts(ps) : ps \in [1..n -> ParsePhrases]} : n \in 1..MaxParts}

ParseHistories == {
    <<>>,
    <<Message("What is the status of IT-001?", "user"),
      Message("Ticket IT-001 is open.", "assistant")>>,
    <<Message("Hi, how are you?", "user"),
      Message("Could you rephrase that?", "assistant")>>
}

(* What the parser reads from the history: _get_last_ticket_id_from_context *)
(* is called when the query is no listing query, the IT patterns found no  *)
(* ID and a contextual pattern matches.                                    *)
NotConsulted == "not consulted"

ContextualLookup(direct, query_lower, context) ==
    IF direct # None \/ ~AnySearch(contextual_patterns, query_lower) THEN NotConsulted
    ELSE _get_last_ticket_id_from_context(context)

LookupInHistory(query_lower, context) ==
    IF is_search_query(query_lower) THEN NotConsulted
    ELSE ContextualLookup(AgentItIdFrom(query_lower, 1), query_lower, context)

InitParse ==
    /\ history \in ParseHistories
    /\ last_response_data = NoData
    /\ processing_query = FALSE
    /\ scheduled = <<>>
    /\ pc = "parse"
    /\ user_query \in ParseQueries
    /\ llm_outcome = NoLLM
    /\ llm_calls = 0
    /\ raised = None
    /\ user_intent = NoIntent
    /\ tasks = <<>>
    /\ supervisor_result = NoResult
    /\ agents_called = <<>>
    /\ agent_results = <<>>
    /\ criteria = NoCriteria
    /\ resolved = None
    /\ confidence_scores = <<>>
    /\ escalation_count = 0
    /\ escalate = FALSE
    /\ inputs = 0

ParseCriteria ==
    /\ pc = "parse"
    /\ criteria' = _parse_query_criteria(user_query, Context(history))
    /\ resolved' = LookupInHistory(LowerStr(user_query), Context(history))
    /\ pc' = "parsed"
    /\ UNCHANGED <<session, processing_query, scheduled, user_query, llm_outcome, llm_calls, raised,
                   user_intent, tasks, supervisor_result, agents_called, agent_results, policy,
                   inputs>>

NextParse == ParseCriteria

SpecParse == InitParse /\ [][NextParse]_vars

-----------------------------------------------------------------------------
(* Ticket-ID extraction of both components on the same query: the          *)
(* entities of FastIntentClassifier._check_ticket_patterns (called by      *)
(* classify_intent on the lower-cased, stripped query) and the ticket_id   *)
(* of TicketAgent._parse_query_criteria.                                   *)

ExtractPhrases == {
    "it 7", "IT-002", "It-12345", "IT  045", "merit 7",
    "ticket 14", "list all tickets", "status of", "that ticket", "Hi"
}

ExtractQueries ==
    UNION {{JoinParts(ps) : ps \in [1..n -> ExtractPhrases]} : n \in 1..MaxParts}

InitExtract ==
    /\ history \in {<<>>, <<Message("What is the status of IT-001?", "user"),
                            Message("Ticket IT-001 is open.", "assistant")>>}
    /\ last_response_data = NoData
    /\ processing_query = FALSE
    /\ scheduled = <<>>
    /\ pc = "query"
    /\ user_query \in ExtractQueries
    /\ llm_outcome = NoLLM
    /\ llm_calls = 0
    /\ raised = None
    /\ user_intent = NoIntent
    /\ tasks = <<>>
    /\ supervisor_result = NoResult
    /\ agents_called = <<>>
    /\ agent_results = <<>>
    /\ criteria = NoCriteria
    /\ resolved = None
    /\ confidence_scores = <<>>
    /\ escalation_count = 0
    /\ escalate = FALSE
    /\ inputs = 0

(* ticket_match, ticket_entities = self._check_ticket_patterns(query_lower) *)
CheckTicketPatterns ==
    /\ pc = "query"
    /\ user_intent' = [NoIntent EXCEPT
           !.entities = _check_ticket_patterns(Strip(LowerStr(user_query))).entities]
    /\ pc' = "checked"
    /\ UNCHANGED <<session, processing_query, scheduled, user_query, llm_outcome, llm_calls, raised,
                   tasks, supervisor_result, agents_called, agent_results, criteria, resolved,
                   policy, inputs>>

(* The parser's criteria, and the Context Resolver's answer on the same    *)
(* context.                                                                *)
ParseChecked ==
    /\ pc = "checked"
    /\ criteria' = _parse_query_criteria(user_query, Context(history))
    /\ resolved' = _get_last_ticket_id_from_context(Context(history))
    /\ pc' = "extracted"
    /\ UNCHANGED <<session, processing_query, scheduled, user_query, llm_outcome, llm_calls, raised,
                   user_intent, tasks, supervisor_result, agents_called, agent_results,
                   policy, inputs>>

NextExtract == CheckTicketPatterns \/ ParseChecked

SpecExtract == InitExtract /\ [][NextExtract]_vars

-----------------------------------------------------------------------------
(* _normalize_ticket_id, in both copies, as a function of the raw ID: the  *)
(* raw IDs are the strings of up to MaxLen characters over RawChars, and   *)
(* some canonical IDs.                                                     *)

MaxLen == 4

RawChars == {"i", "T", "-", "7", "0", " ", "x"}

RECURSIVE ConcatChars(_)
ConcatChars(cs) == IF cs = <<>> THEN "" ELSE Head(cs) \o ConcatChars(Tail(cs))

RawIds ==
    {"IT-007", "IT-014", "IT-12345"} \cup
    UNION {{ConcatChars(cs) : cs \in [1..n -> RawChars]} : n \in 0..MaxLen}

InitNormalize ==
    /\ history = <<>>
    /\ last_response_data = NoData
    /\ processing_query = FALSE
    /\ scheduled = <<>>
    /\ pc = "raw"
    /\ user_query \in RawIds
    /\ llm_outcome = NoLLM
    /\ llm_calls = 0
    /\ raised = None
    /\ user_intent = NoIntent
    /\ tasks = <<>>
    /\ supervisor_result = NoResult
    /\ agents_called = <<>>
    /\ agent_results = <<>>
    /\ criteria = NoCriteria
    /\ resolved = None
    /\ confidence_scores = <<>>
    /\ escalation_count = 0
    /\ escalate = FALSE
    /\ inputs = 0

(* Each copy is applied to the raw ID: resolved holds the classifier's     *)
(* result, criteria.ticket_id the ticket agent's.                          *)
NormalizeRaw ==
    /\ pc = "raw"
    /\ resolved' = _normalize_ticket_id(user_query)
    /\ criteria' = SearchCriteria(TicketAgent_normalize_ticket_id(user_query))
    /\ pc' = "once"
    /\ UNCHANGED <<session, processing_query, scheduled, user_query, llm_outcome, llm_calls, raised,
                   user_intent, tasks, supervisor_result, agents_called, agent_results, policy,
                   inputs>>

(* Each copy is applied to its own result. *)
NormalizeAgain ==
    /\ pc = "once"
    /\ resolved' = _normalize_ticket_id(resolved)
    /\ criteria' = SearchCriteria(TicketAgent_normalize_ticket_id(criteria.ticket_id))
    /\ pc' = "twice"
    /\ UNCHANGED <<session, processing_query, scheduled, user_query, llm_outcome, llm_calls, raised,
                   user_intent, tasks, supervisor_result, agents_called, agent_results, policy,
                   inputs>>

NextNormalize == NormalizeRaw \/ NormalizeAgain

SpecNormalize == InitNormalize /\ [][NextNormalize]_vars

-----------------------------------------------------------------------------
(* SupervisorAgent.analyze_intent and route_to_agents as functions of the  *)
(* query, the conversation context and the reply of the language model,    *)
(* which may report any confidence.                                        *)

AnalyzeQueries == {"", "  ", " \n", "banana", "give me more details", "Hi", "IT-001"}

AnalyzeHistories_Mention ==
    <<Message("What is the status of IT-001?", "user"),
      Message("Ticket IT-001 is open.", "assistant")>>

AnalyzeHistories == {<<>>, AnalyzeHistories_Mention}

AnalyzeOutcomes(fast_intent) ==
    IF fast_intent = NoIntent
    THEN LLMOutcomes \cup {LLMReturn(DocOverConfident), LLMReturn(DocNegative)}
    ELSE {NoLLM}

(* The session as the earlier turns left it. *)
ScoresOf(h) == IF h = <<>> THEN <<>> ELSE <<90, 95>>

SnapshotOf(h) ==
    IF h = <<>> THEN NoData
    ELSE [original_query |-> h[1].content, response |-> h[2].content,
          agent_results |-> <<AgentResult("TicketAgent", Data("ticket", TRUE, 0, None),
                                          95, FALSE)>>]

InitAnalyze ==
    /\ history \in AnalyzeHistories
    /\ last_response_data = SnapshotOf(history)
    /\ processing_query = FALSE
    /\ scheduled = <<>>
    /\ pc = "analyze"
    /\ user_query \in AnalyzeQueries
    /\ llm_outcome = NoLLM
    /\ llm_calls = 0
    /\ raised = None
    /\ user_intent = NoIntent
    /\ tasks = <<>>
    /\ supervisor_result = NoResult
    /\ agents_called = <<>>
    /\ agent_results = <<>>
    /\ criteria = NoCriteria
    /\ resolved = None
    /\ confidence_scores = ScoresOf(history)
    /\ escalation_count = 0
    /\ escalate = FALSE
    /\ inputs = 0

(* A variant of AnalyzeQuery that records the confidence of the intent in  *)
(* the context.                                                            *)
AnalyzeQuery_RecordsConfidence ==
    /\ pc = "analyze"
    /\ \E outcome \in AnalyzeOutcomes(classify_intent(user_query)) :
         /\ Analyzed(outcome, analyze_intent(user_query, Context(history), outcome))
         /\ confidence_scores' = Append(confidence_scores,
                analyze_intent(user_query, Context(history), outcome).intent.confidence)
    /\ pc' = "analyzed"
    /\ UNCHANGED <<history, last_response_data, processing_query, scheduled, user_query, tasks,
                   supervisor_result, agents_called, agent_results, criteria, resolved, policy,
                   inputs>>

AnalyzeQuery ==
    /\ pc = "analyze"
    /\ \E outcome \in AnalyzeOutcomes(classify_intent(user_query)) :
         Analyzed(outcome, analyze_intent(user_query, Context(history), outcome))
    /\ pc' = "analyzed"
    /\ UNCHANGED <<session, processing_query, scheduled, user_query, tasks, supervisor_result,
                   agents_called, agent_results, criteria, resolved, policy, inputs>>

RouteAnalyzed ==
    /\ pc = "analyzed"
    /\ tasks' = route_to_agents(user_intent, user_query, Context(history))
    /\ pc' = "routed"
    /\ UNCHANGED <<session, processing_query, scheduled, user_query, llm_outcome, llm_calls, raised,
                   user_intent, supervisor_result, agents_called, agent_results, criteria,
                   resolved, policy, inputs>>

(* TicketAgent._parse_query_criteria and _get_last_ticket_id_from_context  *)
(* on the same query and context.                                          *)
ParseAnalyzed ==
    /\ pc = "routed"
    /\ criteria' = _parse_query_criteria(user_query, Context(history))
    /\ resolved' = _get_last_ticket_id_from_context(Context(history))
    /\ pc' = "parsed"
    /\ UNCHANGED <<session, processing_query, scheduled, user_query, llm_outcome, llm_calls, raised,
                   user_intent, tasks, supervisor_result, agents_called, agent_results, policy,
                   inputs>>

NextAnalyze == AnalyzeQuery \/ RouteAnalyzed \/ ParseAnalyzed

SpecAnalyze == InitAnalyze /\ [][NextAnalyze]_vars

-----------------------------------------------------------------------------
(* SupervisorAgent.should_escalate over sessions of up to MaxMessages      *)
(* messages recorded with a confidence.                                    *)

MaxMessages == 4

PolicyMessages == {
    Message("can I get a manager", "user"),
    Message("Ticket IT-001 is open.", "assistant")
}

Confidences == {50, 65, 70}

InitPolicy ==
    /\ Init
    /\ pc = "idle"

(* ConversationContext.add_message with a confidence. *)
RecordMessage(m, confidence) ==
    /\ pc = "idle"
    /\ Len(history) < MaxMessages
    /\ history' = Append(history, m)
    /\ confidence_scores' = Append(confidence_scores, confidence)
    /\ UNCHANGED <<last_response_data, processing_query, scheduled, pc, locals, resolved, policy,
                   inputs>>

ShouldEscalate(confidence) ==
    /\ pc = "idle"
    /\ escalate' = should_escalate(confidence, PolicyContext(history, confidence_scores))
    /\ supervisor_result' = [NoResult EXCEPT !.confidence = confidence]
    /\ pc' = "decided"
    /\ UNCHANGED <<session, escalation_count, processing_query, scheduled, user_query, llm_outcome,
                   llm_calls, raised, user_intent, tasks, agents_called, agent_results, criteria,
                   resolved, inputs>>

NextPolicy ==
    \/ \E m \in PolicyMessages, confidence \in Confidences : RecordMessage(m, confidence)
    \/ \E confidence \in Confidences : ShouldEscalate(confidence)

SpecPolicy == InitPolicy /\ [][NextPolicy]_vars

-----------------------------------------------------------------------------
(* Properties of the fast classifier, over SpecClassify.                   *)

(* What the classified query matches, tier by tier. *)
QueryLower == Strip(LowerStr(user_query))
GreetingMatch == _check_patterns(QueryLower, greeting_patterns) # None
EscalationMatch == _check_patterns(QueryLower, escalation_patterns) # None
FollowupMatch == _check_patterns(QueryLower, followup_patterns) # None
TicketMatch == _check_patterns(QueryLower, ticket_patterns) # None
KnowledgeMatch == _check_patterns(QueryLower, knowledge_patterns) # None
MixedMatch ==
    explicit_mixed_indicators(QueryLower, _check_patterns(QueryLower, ticket_patterns),
                              _check_patterns(QueryLower, knowledge_patterns))

(* The explicit dual-request phrases. *)
DualPhrase ==
    \/ Contains(QueryLower, "can you also")
    \/ Contains(QueryLower, "and also")
    \/ Contains(QueryLower, "also tell me")
    \/ Contains(QueryLower, "also explain")
    \/ /\ Contains(QueryLower, "ticket")
       /\ Contains(QueryLower, "also")
       /\ AnyIn(QueryLower, {"explain", "tell me about", "what is a", "how does"})

(* The first tier that matches in the order greeting, escalation, explicit *)
(* mixed, ticket, knowledge, follow-up.                                    *)
FirstTier ==
    IF GreetingMatch THEN "greeting"
    ELSE IF EscalationMatch THEN "escalation"
    ELSE IF MixedMatch THEN "mixed_query"
    ELSE IF TicketMatch THEN "ticket_query"
    ELSE IF KnowledgeMatch THEN "knowledge_query"
    ELSE IF FollowupMatch THEN "follow-up"
    ELSE None

(* C1: for every non-empty query the returned intent is the one of the     *)
(* first tier that matches in the order greeting, escalation, explicit     *)
(* mixed, ticket, knowledge, follow-up, whatever later tiers match: the    *)
(* category is that tier's, and the follow-up tier answers only when none  *)
(* of the five before it matches.                                          *)
C1_FirstTierWins ==
    pc = "classified" /\ QueryLower # "" =>
        /\ FirstTier \in {"greeting", "escalation", "mixed_query", "ticket_query",
                          "knowledge_query"}
             => user_intent.intent_type = FirstTier
        /\ user_intent.reasoning = "Detected follow-up query" => FirstTier = "follow-up"
        /\ FirstTier = None => user_intent = NoIntent

C3_GreetingWins ==
    pc = "classified" /\ GreetingMatch =>
        /\ user_intent.intent_type = "greeting"
        /\ user_intent.confidence = 95
        /\ user_intent.entities = NoEntities

(* A greeting that also holds escalation language has been classified. *)
C3_GreetingWithEscalation ==
    /\ pc = "classified"
    /\ GreetingMatch
    /\ EscalationMatch
    /\ user_intent.intent_type = "greeting"

(* C4, as stated: MIXED_QUERY only with an explicit dual-request phrase,   *)
(* and every query that matches both a ticket and a knowledge pattern      *)
(* without such a phrase is TICKET_QUERY.                                  *)
C4_MixedOnlyExplicit_AnyQuery ==
    pc = "classified" =>
        /\ user_intent.intent_type = "mixed_query" => DualPhrase
        /\ TicketMatch /\ KnowledgeMatch /\ ~DualPhrase
             => user_intent.intent_type = "ticket_query"

(* C4, amended: MIXED_QUERY only with an explicit dual-request phrase, and *)
(* a query that matches no greeting and no escalation pattern and matches  *)
(* both a ticket and a knowledge pattern without such a phrase is          *)
(* TICKET_QUERY, never MIXED_QUERY.                                        *)
C4_MixedOnlyExplicit ==
    pc = "classified" =>
        /\ user_intent.intent_type = "mixed_query" => DualPhrase
        /\ ~GreetingMatch /\ ~EscalationMatch /\ TicketMatch /\ KnowledgeMatch /\ ~DualPhrase
             => user_intent.intent_type = "ticket_query"

(* A query with ticket and knowledge language and no dual-request phrase   *)
(* has been classified as a ticket query.                                  *)
C4_BothWithoutPhrase ==
    /\ pc = "classified"
    /\ ~GreetingMatch /\ ~EscalationMatch /\ ~FollowupMatch
    /\ TicketMatch /\ KnowledgeMatch /\ ~DualPhrase
    /\ user_intent.intent_type = "ticket_query"

-----------------------------------------------------------------------------
(* Properties of the supervisor and of the turn, over Spec.                *)

AfterAnalysis == pc \in {"route", "agents", "respond"}
AfterRouting == pc \in {"agents", "knowledge", "respond"}

FastDecides(fast_intent) ==
    /\ llm_calls = (IF fast_intent = NoIntent THEN 1 ELSE 0)
    /\ fast_intent # NoIntent => user_intent = fast_intent

(* C5: analyze_intent calls the model if and only if the fast classifier   *)
(* returned no match; an intent of the fast classifier is returned         *)
(* unchanged, with no model call in the turn.                              *)
C5_ModelOnlyOnNoMatch ==
    AfterAnalysis => FastDecides(classify_intent_fast(user_query))

(* The model has been asked about a query the classifier does not know,    *)
(* and its answer is the intent.                                           *)
C5_ModelAsked ==
    /\ pc = "route"
    /\ classify_intent_fast(user_query) = NoIntent
    /\ llm_calls = 1
    /\ llm_outcome = LLMReturn(DocKnowledge)
    /\ user_intent.intent_type = "knowledge_query"

(* Replies that cannot be decoded into an intent: not JSON once the        *)
(* "json" fence is removed, JSON that is no object, an unknown intent_type. *)
UndecodableTexts == {
    "This looks like a ticket query.", "",
    Fence \o "\n" \o DocKnowledge \o "\n" \o Fence,
    DocArray, DocNull,
    DocBadType
}

FailureReasons ==
    {"Failed to parse response"} \cup
    {"Error during intent analysis: " \o e : e \in {"ClientError", "AttributeError",
                                                    "ValueError"}}

(* C6: the fallback classification never raises to its caller: when the    *)
(* reply cannot be decoded into an intent or the model call raises, the    *)
(* result is Intent(UNKNOWN, 0.0) whose reasoning records the failure.     *)
C6_FallbackNeverRaises ==
    AfterAnalysis /\ llm_calls = 1 =>
        /\ raised = None
        /\ llm_outcome.raises # None \/ llm_outcome.text \in UndecodableTexts =>
             /\ user_intent.intent_type = "unknown"
             /\ user_intent.confidence = 0
             /\ user_intent.reasoning \in FailureReasons

(* A reply whose intent_type is outside the enumeration has been turned    *)
(* into the UNKNOWN intent.                                                *)
C6_BadTypeHandled ==
    /\ pc = "route"
    /\ llm_outcome = LLMReturn(DocBadType)
    /\ raised = None
    /\ user_intent.intent_type = "unknown"
    /\ user_intent.confidence = 0

C8_FollowupRunsNoAgent ==
    /\ AfterRouting /\ user_intent.intent_type = "followup" => tasks = <<>>
    /\ pc = "respond" /\ user_intent.intent_type = "followup" => agents_called = <<>>

(* C10: after "What is the status of IT-001?" and a reply that mentions    *)
(* IT-001, "What was the resolution time for that ticket?" is routed to    *)
(* the ticket agent and parsed into criteria whose ticket_id is IT-001.    *)
C10_ContextualFollowOn ==
    /\ pc = "respond"
    /\ Len(history) = 3
    /\ history[1] = Message("What is the status of IT-001?", "user")
    /\ history[2].speaker = "assistant"
    /\ MessageTicketId(history[2].content) = "IT-001"
    /\ history[3] = Message("What was the resolution time for that ticket?", "user")
    /\ user_query = history[3].content
    => /\ InSeq("TicketAgent", agents_called)
       /\ criteria.ticket_id = "IT-001"

(* The second turn of that dialogue has reached the ticket agent. *)
C10_SecondTurnParsed ==
    /\ pc = "respond"
    /\ history = <<Message("What is the status of IT-001?", "user"),
                   Message("Ticket IT-001 is open.", "assistant"),
                   Message("What was the resolution time for that ticket?", "user")>>
    /\ user_query = "What was the resolution time for that ticket?"
    /\ agents_called = <<"TicketAgent">>
    /\ criteria.ticket_id = "IT-001"

-----------------------------------------------------------------------------
(* Properties of the Context Resolver, over SpecResolver.                  *)

(* The turns among the last HistoryWindow that mention a ticket ID. *)
RecentMentions ==
    {k \in 1..Len(history) : k > Len(history) - HistoryWindow
                             /\ history[k] \in MentioningMessages}

Newest(ks) == CHOOSE k \in ks : \A j \in ks : j <= k

(* C9: the resolver looks at the last 10 turns only, newest first, of both *)
(* speakers, and returns the ID of the most recent of them that mentions   *)
(* one; it returns None when none of them does.                            *)
C9_MostRecentMention ==
    pc = "resolved" =>
        IF RecentMentions = {} THEN resolved = None
        ELSE resolved = MessageTicketId(history[Newest(RecentMentions)].content)

(* A history whose only mention is older than the last 10 turns has been   *)
(* resolved to None.                                                       *)
C9_OldMentionIgnored ==
    /\ pc = "resolved"
    /\ Len(history) > HistoryWindow
    /\ history[1] \in MentioningMessages
    /\ resolved = None

-----------------------------------------------------------------------------
(* Properties of the escalation decisions, over Spec and SpecPolicy.       *)

(* The step that ends a turn: the reply is given and escalation decided.   *)
TurnEnds == pc = "respond" /\ pc' = "idle"

HandOffReply == history'[Len(history')].content \in escalation_responses

HandlerInvoked == escalation_count' = escalation_count + 1

(* C12: whenever the classified intent is ESCALATION the supervisor's      *)
(* result has requires_escalation set, whatever the confidence, and the    *)
(* turn ends with the escalation handler invoked and a hand-off reply.     *)
C12_EscalationIntentEscalates ==
    [][/\ AfterRouting /\ user_intent.intent_type = "escalation"
          => supervisor_result.requires_escalation
       /\ TurnEnds /\ user_intent.intent_type = "escalation"
          => HandlerInvoked /\ HandOffReply]_vars

(* An ESCALATION intent with a confidence above the threshold has been     *)
(* handed off.                                                             *)
C12_ConfidentEscalation ==
    /\ pc = "idle"
    /\ escalation_count = 1
    /\ Len(last_response_data.agent_results) = 1
    /\ last_response_data.agent_results[1].data.intent_type = "escalation"
    /\ last_response_data.agent_results[1].confidence >= escalation_threshold
    /\ last_response_data.agent_results[1].requires_escalation
    /\ last_response_data.response \in escalation_responses

(* C13: should_escalate decides to escalate whenever the session has at    *)
(* least three confidence scores and the last three are all below 0.7,     *)
(* also when the confidence of the current turn is at or above 0.6.        *)
C13_ThreeLowScoresEscalate ==
    /\ pc = "decided"
    /\ Len(confidence_scores) >= 3
    /\ \A k \in 0..2 : confidence_scores[Len(confidence_scores) - k] < 70
    => escalate

(* Three scores below 0.7 alone have made should_escalate true: the        *)
(* current confidence is at the threshold or above and no recent message   *)
(* asks for a human.                                                       *)
C13_LowScoresAlone ==
    /\ pc = "decided"
    /\ escalate
    /\ supervisor_result.confidence >= escalation_threshold
    /\ Len(history) = 3
    /\ \A k \in 1..3 : history[k] = Message("Ticket IT-001 is open.", "assistant")
    /\ \A k \in 1..3 : confidence_scores[k] = 65

(* The follow-up/continuation cues and the explicit hand-off requests.     *)
FollowupCue == AnyIn(LowerStr(user_query), follow_up_indicators)
ExplicitHandOff == AnyIn(LowerStr(user_query), explicit_escalation_keywords)

(* C14: a turn whose query is a follow-up cue, not classified ESCALATION   *)
(* and no explicit hand-off request, is never escalated: no hand-off reply *)
(* is given and the escalation handler is not invoked.                     *)
C14_FollowupCueNotEscalated ==
    [][TurnEnds /\ FollowupCue /\ ~ExplicitHandOff
       /\ user_intent.intent_type # "escalation"
       => ~HandlerInvoked /\ ~HandOffReply]_vars

ClassificationFailed ==
    /\ llm_calls = 1
    /\ llm_outcome.raises # None \/ llm_outcome.text \in UndecodableTexts

(* C15: when classification fails (the model call raises or its reply      *)
(* cannot be decoded, giving Intent(UNKNOWN, 0.0)), requires_escalation is *)
(* not set by that failure and the escalation handler is not invoked for   *)
(* it.                                                                     *)
C15_FailureDoesNotEscalate ==
    [][/\ AfterRouting /\ ClassificationFailed => ~supervisor_result.requires_escalation
       /\ TurnEnds /\ ClassificationFailed
          /\ (\A k \in 2..Len(agent_results) : ~agent_results[k].requires_escalation)
          => ~HandlerInvoked]_vars

RECURSIVE AgentNames(_)
AgentNames(results) ==
    IF results = <<>> THEN <<>> ELSE <<Head(results).agent_name>> \o AgentNames(Tail(results))

(* The agents the routing decision dispatches, in the order they are run.  *)
Dispatched ==
    (IF InSeq("ticket", AgentTypes(tasks)) THEN <<"TicketAgent">> ELSE <<>>)
    \o (IF InSeq("knowledge", AgentTypes(tasks)) THEN <<"KnowledgeAgent">> ELSE <<>>)

AnyResultRequires == \E k \in 1..Len(agent_results) : agent_results[k].requires_escalation

Replied == Len(history') > Len(history) /\ history'[Len(history')].speaker = "assistant"

(* C16: the reply is given and the escalation handler invoked only when    *)
(* every agent of the routing decision has finished; both read the results *)
(* of the supervisor and of all dispatched agents: the handler is invoked  *)
(* exactly when one of them requires escalation, and they are the results  *)
(* stored with the reply.                                                  *)
C16_DecidedOnAllResults ==
    [][Replied \/ escalation_count' # escalation_count
       => /\ pc = "respond"
          /\ AgentNames(agent_results) = <<"SupervisorAgent">> \o Dispatched
          /\ HandlerInvoked <=> AnyResultRequires
          /\ last_response_data'.agent_results = agent_results]_vars

(* A mixed query has been answered on three results of which only the      *)
(* last, the knowledge agent's, required escalation.                       *)
C16_KnowledgeAloneEscalates ==
    /\ pc = "idle"
    /\ escalation_count = 1
    /\ AgentNames(last_response_data.agent_results)
         = <<"SupervisorAgent", "TicketAgent", "KnowledgeAgent">>
    /\ ~last_response_data.agent_results[1].requires_escalation
    /\ ~last_response_data.agent_results[2].requires_escalation
    /\ last_response_data.agent_results[3].requires_escalation

-----------------------------------------------------------------------------
(* Properties of the criteria parser, over SpecParse.                      *)

ParsedLower == LowerStr(user_query)

(* The ticket ID written in the query itself: IT-NNN or IT NNN, else       *)
(* "ticket N", "of N", "for N", "#N".                                       *)
ExplicitId == OrElse(AgentItIdFrom(ParsedLower, 1), AgentOtherIdFrom(ParsedLower, 1))

ContextCue == AnySearch(contextual_patterns, ParsedLower)

(* C11: for a query that is no listing query, a ticket ID written in the   *)
(* query itself becomes SearchCriteria.ticket_id, and the history is       *)
(* consulted only when the query has a contextual-reference cue and no     *)
(* explicit ticket ID.                                                     *)
C11_ExplicitIdWins ==
    pc = "parsed" /\ ~is_search_query(ParsedLower) =>
        /\ ExplicitId # None => criteria.ticket_id = ExplicitId
        /\ resolved # NotConsulted => ContextCue /\ ExplicitId = None

-----------------------------------------------------------------------------
(* Properties of ticket-ID extraction, over SpecExtract.                   *)

(* The 'IT-<digits>' and 'IT <digits>' tokens of a query, found by         *)
(* position: the letters "it" (in any case) not preceded by a word         *)
(* character, a dash or white space, and a run of digits not followed by a *)
(* word character.                                                         *)
IsSeparator(x) == x = "-" \/ (x # "" /\ \A i \in 1..Len(x) : IsSpaceChar(CharAt(x, i)))

ItTokenBefore(s, first) ==
    \E i \in 1..(first - 3) :
        /\ SubSeq(s, i, i + 1) = "it"
        /\ ~WordAt(s, i - 1)
        /\ IsSeparator(SubSeq(s, i + 2, first - 1))

ItTokenSpans(s) ==
    {sp \in (1..Len(s)) \X (1..Len(s)) :
        /\ sp[1] <= sp[2]
        /\ IsDigitStr(SubSeq(s, sp[1], sp[2]))
        /\ ~WordAt(s, sp[2] + 1)
        /\ ItTokenBefore(s, sp[1])}

CanonicalOf(s, spans) == {"IT-" \o ZFill(SubSeq(s, sp[1], sp[2]), 3) : sp \in spans}

CanonicalTokens(query) == CanonicalOf(LowerStr(query), ItTokenSpans(LowerStr(query)))

Extracted == pc = "extracted"

ClassifierTicketId ==
    IF HasKey(user_intent.entities, "ticket_id") THEN user_intent.entities["ticket_id"] ELSE None

IsCanonicalToken(id, tokens) == tokens # {} => id \in tokens

(* C17 (as stated): for every query with an 'IT-<digits>' or 'IT <digits>' *)
(* token, the classifier's extraction and the criteria parser both yield   *)
(* 'IT-' followed by the digits of such a token, zero-padded to three.     *)
C17_BothYieldCanonical ==
    Extracted =>
        /\ IsCanonicalToken(ClassifierTicketId, CanonicalTokens(user_query))
        /\ IsCanonicalToken(criteria.ticket_id, CanonicalTokens(user_query))

(* C17 (amended): the classifier's extraction yields the canonical ID for  *)
(* every such query; the criteria parser does for every such query that is *)
(* not a listing/search query, and yields no ticket ID for a listing one.  *)
ParserCanonical(id, listing, tokens) ==
    tokens # {} => IF listing THEN id = None ELSE id \in tokens

C17_CanonicalUnlessListing ==
    Extracted =>
        /\ IsCanonicalToken(ClassifierTicketId, CanonicalTokens(user_query))
        /\ ParserCanonical(criteria.ticket_id, is_search_query(LowerStr(user_query)),
                           CanonicalTokens(user_query))

C17_LowerCaseTokenPadded ==
    /\ Extracted
    /\ user_query = "status of it 7"
    /\ ClassifierTicketId = "IT-007"
    /\ criteria.ticket_id = "IT-007"

C17_ListingYieldsNoId ==
    /\ Extracted
    /\ CanonicalTokens(user_query) # {}
    /\ is_search_query(LowerStr(user_query))
    /\ ClassifierTicketId \in CanonicalTokens(user_query)
    /\ criteria.ticket_id = None

-----------------------------------------------------------------------------
(* Properties of _normalize_ticket_id, over SpecNormalize.                 *)

IsCanonicalId(x) ==
    /\ StartsWith(x, "IT-")
    /\ Len(x) >= 6
    /\ IsDigitStr(SubSeq(x, 4, Len(x)))

(* C18: normalizing a ticket ID twice gives what normalizing it once       *)
(* gives, in the classifier's copy and in the ticket agent's copy; an      *)
(* already-canonical ID is returned unchanged.                             *)
C18_NormalizeIdempotent ==
    /\ pc = "twice" =>
          /\ resolved = _normalize_ticket_id(user_query)
          /\ criteria.ticket_id = TicketAgent_normalize_ticket_id(user_query)
    /\ (pc = "once" /\ IsCanonicalId(user_query)) =>
          /\ resolved = user_query
          /\ criteria.ticket_id = user_query

C18_PaddedStaysPadded ==
    /\ pc = "twice"
    /\ user_query = " i7 "
    /\ resolved = "IT-007"
    /\ criteria.ticket_id = "IT-007"

-----------------------------------------------------------------------------
(* Properties of the fast classifier on requests for details, over         *)
(* SpecClassify.                                                           *)

(* C19: a bare follow-up request ("give me more details", "details", "I    *)
(* have another question") is classified FOLLOWUP by the fast classifier,  *)
(* never TICKET_QUERY, KNOWLEDGE_QUERY or no match.                        *)
C19_BareFollowupIsFollowup ==
    (pc = "classified" /\ user_query \in BareFollowups) =>
        user_intent.intent_type = "followup"

(* A details request that names a ticket number, and the canonical ID of   *)
(* the number named.                                                       *)
DetailRequests ==
    ("details about my ticket 14" :> "IT-014")
    @@ ("details about IT-001" :> "IT-001")
    @@ ("details about it 7" :> "IT-007")

(* C20: a details request that names a ticket number is classified         *)
(* TICKET_QUERY with entities.ticket_id the zero-padded canonical ID, not  *)
(* FOLLOWUP: no follow-up pattern matches it.                              *)
C20_DetailsOfTicketIsTicketQuery ==
    (pc = "classified" /\ user_query \in DOMAIN DetailRequests) =>
        /\ user_intent.intent_type = "ticket_query"
        /\ HasKey(user_intent.entities, "ticket_id")
        /\ user_intent.entities["ticket_id"] = DetailRequests[user_query]
        /\ ~HasKey(user_intent.entities, "followup")
        /\ _check_patterns(Strip(LowerStr(user_query)), followup_patterns) = None

C20_TicketFourteen ==
    /\ pc = "classified"
    /\ user_query = "details about my ticket 14"
    /\ user_intent = Intent("ticket_query", 95, Entity("ticket_id", "IT-014"),
                            "Detected ticket query pattern: ticket_id")

-----------------------------------------------------------------------------
(* Properties of the confidence of the fast classifier, over SpecClassify. *)

TierConfidence(intent) ==
    CASE intent.intent_type = "ticket_query" ->
            IF HasKey(intent.entities, "ticket_id") THEN 95 ELSE 85
      [] intent.intent_type = "greeting" -> 95
      [] intent.intent_type \in {"escalation", "mixed_query"} -> 90
      [] intent.intent_type = "knowledge_query" -> 85
      [] OTHER -> -1

(* C21: the confidence of every intent the fast classifier returns is      *)
(* fixed by its category and entities: a TICKET_QUERY has 0.95 exactly     *)
(* when its entities hold a ticket_id and 0.85 otherwise, GREETING 0.95,   *)
(* ESCALATION and MIXED_QUERY 0.90, KNOWLEDGE_QUERY 0.85.                  *)
C21_ConfidenceByTier ==
    (pc = "classified" /\ user_intent # NoIntent) =>
        user_intent.confidence = TierConfidence(user_intent)

C21_TicketIdGivesHighConfidence ==
    /\ pc = "classified"
    /\ user_query = "status of IT-001"
    /\ user_intent.intent_type = "ticket_query"
    /\ user_intent.entities = Entity("ticket_id", "IT-001")
    /\ user_intent.confidence = 95

-----------------------------------------------------------------------------
(* Properties of analyze_intent, over SpecAnalyze.                         *)

IntentAnalyzed == pc \in {"analyzed", "routed", "parsed"}

BlankQuery == Strip(user_query) = ""

(* C22: for an empty or blank query the fast classifier has no match and   *)
(* analyze_intent returns an UNKNOWN intent of low confidence without      *)
(* raising.                                                                *)
C22_BlankQueryIsUnknown ==
    (IntentAnalyzed /\ BlankQuery) =>
        /\ classify_intent(user_query) = NoIntent
        /\ raised = None
        /\ user_intent.intent_type = "unknown"
        /\ user_intent.confidence < escalation_threshold

C25_ConfidenceInUnitInterval ==
    IntentAnalyzed => user_intent.confidence \in 0..100

-----------------------------------------------------------------------------
(* Properties of sessions with interruptions and failing turns, over       *)
(* SpecSession.                                                            *)

SnapshotKeys == {"agent_name", "data", "confidence", "requires_escalation"}

(* The snapshot holds one entry per agent result, with the four fields. *)
EntryPerResult(entries, results) ==
    /\ Len(entries) = Len(results)
    /\ \A k \in 1..Len(results) :
         /\ DOMAIN entries[k] = SnapshotKeys
         /\ \A key \in SnapshotKeys : entries[k][key] = results[k][key]

AssistantContents(h) == {h[k].content : k \in {j \in 1..Len(h) : h[j].speaker = "assistant"}}

TurnEndsWell == pc = "speak" /\ pc' = "idle" /\ raised' = None

(* C23: a turn that ends without error replaces last_response_data by the  *)
(* snapshot of that turn (one entry per agent result, the turn's query and *)
(* its reply); the snapshot changes at no other step, so that it is still  *)
(* the earlier turn's while the reply is generated.                        *)
C23_SnapshotAfterReply ==
    [][/\ TurnEndsWell =>
            /\ EntryPerResult(last_response_data'.agent_results, agent_results)
            /\ last_response_data'.original_query = user_query
            /\ last_response_data'.response \in AssistantContents(history)
            /\ last_response_data'.response = LastAssistantMessage(history, Len(history))
       /\ last_response_data' # last_response_data => TurnEndsWell]_vars

C23_EarlierSnapshotWhileAnswering ==
    /\ pc = "respond"
    /\ user_query = "What is the status of IT-001?"
    /\ last_response_data.original_query = "I want to talk to a human"
    /\ Len(last_response_data.agent_results) = 1
    /\ last_response_data.response \in escalation_responses

(* C27: the query text from which the reply of a turn is generated (the    *)
(* last user message of the history, read by _generate_response) is the    *)
(* text of the query being processed, whatever was appended to the history *)
(* meanwhile.                                                              *)
C27_ReplyForSameQuery ==
    pc = "respond" => LastUserMessage(history, Len(history)) = user_query

(* C29: processing_query is true exactly while one execution of           *)
(* _process_user_query is between its entry guard and its end: after every *)
(* step the flag is set if and only if a turn is in progress, whether the   *)
(* turn ended by normal return, timeout or exception, and no second        *)
(* execution takes over while a turn is in progress: the query being       *)
(* processed stays the same until the turn ends.                           *)
C29_FlagExactlyWhileProcessing ==
    [][/\ processing_query <=> pc # "idle"
       /\ processing_query' <=> pc' # "idle"
       /\ (pc # "idle" /\ pc' # "idle") => user_query' = user_query]_vars

(* A turn has ended in the timeout clause, and the flag is down. *)
C29_FlagDownAfterTimeout ==
    /\ raised = "TimeoutError"
    /\ pc = "idle"
    /\ ~processing_query
    /\ Len(history) >= 1

(* C30: a direct ticket lookup by the TicketAgent reports confidence 0.95  *)
(* only when the ticket exists; when the ticket named by the criteria is   *)
(* not found, the result has confidence 0.1 and requires escalation.       *)
DirectLookups ==
    {k \in 1..Len(agent_results) :
        /\ agent_results[k].agent_name = "TicketAgent"
        /\ agent_results[k].data.type = "specific_ticket"}

C30_MissingTicketLowConfidence ==
    \A k \in DirectLookups :
        /\ agent_results[k].confidence = 95 => agent_results[k].data.found
        /\ ~agent_results[k].data.found =>
             /\ agent_results[k].confidence = 10
             /\ agent_results[k].requires_escalation

TurnsOf(h, speaker) == Cardinality({k \in 1..Len(h) : h[k].speaker = speaker})

(* C28, over SpecLive: every user turn appended to the history is          *)
(* eventually answered: once there are k user turns, there are eventually  *)
(* k assistant turns.                                                      *)
C28_EveryUserTurnAnswered ==
    \A k \in 1..MaxInputs :
        (TurnsOf(history, "user") >= k) ~> (TurnsOf(history, "assistant") >= k)

-----------------------------------------------------------------------------
(* The form of the ticket IDs produced, over SpecExtract.                  *)

CanonicalOrNone(id) == id = None \/ IsCanonicalId(id)

ReturnedTicketId(intent) ==
    IF HasKey(intent.entities, "ticket_id") THEN intent.entities["ticket_id"] ELSE None

(* C26: every ticket ID produced (the ticket_id entity of the intent the   *)
(* fast classifier returns, the ticket_id of the parser's criteria, the    *)
(* Context Resolver's value) is upper-case 'IT-' followed by at least      *)
(* three digits.                                                           *)
C26_ProducedIdsCanonical ==
    Extracted =>
        /\ CanonicalOrNone(ReturnedTicketId(classify_intent(user_query)))
        /\ CanonicalOrNone(criteria.ticket_id)
        /\ CanonicalOrNone(resolved)

====
